---- MODULE Spec2Model ----
(***************************************************************************)
(* Nomina BJ Pro 4.0: the payroll engine (services/calculoNomina.js), the  *)
(* roster routes (routes/empleados.js) and the period batches              *)
(* (routes/nominas.js) as a state machine over the three JSON stores.      *)
(*                                                                         *)
(* Conventions                                                             *)
(*  - a JavaScript object is a function from its own property names; a     *)
(*    property that is undefined is simply not in the DOMAIN;              *)
(*  - null is the one-property object Null;                                *)
(*  - a cedula is [t, v]: t is the JavaScript type ("string" or "number")  *)
(*    and v the digits, so that === can tell "1" from 1;                   *)
(*  - salaries and the transport subsidy are whole pesos; bonificacion,    *)
(*    prestamo and every reported (rounded) currency field are centavos,   *)
(*    so that 206,459.87 is the integer 20645987;                          *)
(*  - the factors of config.factores are hundredths (1.25 is 125);         *)
(*  - intermediate amounts are exact fractions [n, d] of a peso.           *)
(***************************************************************************)
EXTENDS Integers, Sequences, FiniteSets, TLC

VARIABLES empleados, config, nominas, now, res, calcIn, calcOut

vars == <<empleados, config, nominas, now, res, calcIn, calcOut>>

(***************************************************************************)
(* JavaScript values                                                       *)
(***************************************************************************)
Null == [null |-> TRUE]

IsNull(o) == "null" \in DOMAIN o

Has(o, k) == k \in DOMAIN o

Put(o, k, v) == [f \in DOMAIN o \cup {k} |-> IF f = k THEN v ELSE o[f]]

Spread(a, b) == [f \in DOMAIN a \cup DOMAIN b |-> IF f \in DOMAIN b THEN b[f] ELSE a[f]]

Omit(o, ks) == [f \in DOMAIN o \ ks |-> o[f]]

Str(n) == [t |-> "string", v |-> n]

Num(n) == [t |-> "number", v |-> n]

String(c) == [t |-> "string", v |-> c.v]

StrictEq(a, b) == a.t = b.t /\ a.v = b.v

(***************************************************************************)
(* Exact fractions of a peso                                               *)
(***************************************************************************)
RECURSIVE Gcd(_, _)
Gcd(a, b) == IF b = 0 THEN a ELSE Gcd(b, a % b)

Abs(n) == IF n < 0 THEN -n ELSE n

Rat(n, d) ==
    LET g == Gcd(Abs(n), Abs(d))
        s == IF d < 0 THEN -1 ELSE 1
    IN  IF n = 0 THEN [n |-> 0, d |-> 1]
        ELSE [n |-> s * (n \div g), d |-> s * (d \div g)]

RatInt(i) == [n |-> i, d |-> 1]

RatMul(a, b) ==
    LET x == Rat(a.n, b.d)
        y == Rat(b.n, a.d)
    IN  Rat(x.n * y.n, x.d * y.d)

RatDivInt(a, i) == RatMul(a, Rat(1, i))

RatAdd(a, b) ==
    LET g == Gcd(a.d, b.d)
    IN  Rat(a.n * (b.d \div g) + b.n * (a.d \div g), (a.d \div g) * b.d)

RatNeg(a) == [n |-> -a.n, d |-> a.d]

RatSub(a, b) == RatAdd(a, RatNeg(b))

Centavos(c) == Rat(c, 100)

(***************************************************************************)
(* middleware/errorHandler.js                                              *)
(***************************************************************************)
ErrorCodes ==
    [ EMP_NOT_FOUND         |-> [code |-> "EMP_NOT_FOUND", status |-> 404,
                                 message |-> "Empleado no encontrado"],
      EMP_DUPLICATE         |-> [code |-> "EMP_DUPLICATE", status |-> 409,
                                 message |-> "La cedula ya esta registrada"],
      EMP_INVALID_DATA      |-> [code |-> "EMP_INVALID_DATA", status |-> 400,
                                 message |-> "Datos del empleado invalidos"],
      NOMINA_NOT_FOUND      |-> [code |-> "NOMINA_NOT_FOUND", status |-> 404,
                                 message |-> "Periodo de nomina no encontrado"],
      NOMINA_ALREADY_CLOSED |-> [code |-> "NOMINA_ALREADY_CLOSED", status |-> 400,
                                 message |-> "El periodo de nomina ya esta cerrado"],
      VALIDATION_ERROR      |-> [code |-> "VALIDATION_ERROR", status |-> 400,
                                 message |-> "Error de validacion"],
      INTERNAL_ERROR        |-> [code |-> "INTERNAL_ERROR", status |-> 500,
                                 message |-> "Error interno del servidor"] ]

\* customMessage "" stands for the default null: customMessage || errorDef.message
createError(errorKey, customMessage) ==
    LET errorDef == IF errorKey \in DOMAIN ErrorCodes THEN ErrorCodes[errorKey]
                    ELSE ErrorCodes.INTERNAL_ERROR
    IN  [name |-> "AppError",
         message |-> IF customMessage = "" THEN errorDef.message ELSE customMessage,
         code |-> errorDef.code, statusCode |-> errorDef.status, isOperational |-> TRUE]

\* The exception the runtime raises when an identifier resolves to no binding.
ReferenceError(id) ==
    [name |-> "ReferenceError", identifier |-> id, message |-> id \o " is not defined"]

\* Reading a property of undefined or null.
TypeError == [name |-> "TypeError", message |-> "Cannot read properties of undefined"]

\* The error response: err.code || 'INTERNAL_ERROR', err.statusCode || 500, and
\* the message of an operational error only.
errorHandler(err) ==
    [success |-> FALSE,
     code    |-> IF Has(err, "code") THEN err.code ELSE "INTERNAL_ERROR",
     message |-> IF Has(err, "isOperational") /\ err.isOperational THEN err.message
                 ELSE "Ha ocurrido un error en el servidor",
     status  |-> IF Has(err, "statusCode") THEN err.statusCode ELSE 500]

Throw(e) == [kind |-> "throw", error |-> e]

(***************************************************************************)
(* services/calculoNomina.js                                               *)
(***************************************************************************)
\* Math.round(valor * 100) / 100, as centavos: Math.round is floor(x + 1/2).
redondear(valor) ==
    LET q == valor.n \div valor.d
        r == valor.n % valor.d
    IN  q * 100 + ((200 * r + valor.d) \div (2 * valor.d))

\* !o.k for a numeric property that may be undefined
Falsy(o, k) == ~Has(o, k) \/ o[k] = 0

Negative(o, k) == Has(o, k) /\ o[k] < 0

validarDatos(empleado, novedades, cfg) ==
    LET e1 == IF IsNull(empleado) \/ Falsy(empleado, "salarioBase")
              THEN <<"empleado">> ELSE <<>>
        e2 == IF ~Has(novedades, "diasLaborados")
                 \/ novedades.diasLaborados < 0 \/ novedades.diasLaborados > 30
              THEN <<"diasLaborados">> ELSE <<>>
        e3 == IF Negative(novedades, "horasExtraDiurna")
              THEN <<"horasExtraDiurna">> ELSE <<>>
        e4 == IF Negative(novedades, "horasExtraNocturna")
              THEN <<"horasExtraNocturna">> ELSE <<>>
        e5 == IF Negative(novedades, "prestamo") THEN <<"prestamo">> ELSE <<>>
        e6 == IF Negative(novedades, "bonificacion") THEN <<"bonificacion">> ELSE <<>>
        e7 == IF IsNull(cfg) \/ Falsy(cfg, "smmlv") THEN <<"config">> ELSE <<>>
    IN  IF IsNull(novedades) THEN e1 \o <<"novedades">>
        ELSE e1 \o e2 \o e3 \o e4 \o e5 \o e6 \o e7

calcularValoresBase(salarioBase, cfg) ==
    LET horaDivisor   == IF Falsy(cfg, "horaDivisor") THEN 240 ELSE cfg.horaDivisor
        S             == RatInt(salarioBase)
        horaOrdinaria == RatDivInt(S, horaDivisor)
        valorDia      == RatDivInt(S, 30)
        factor(k)     == Rat(cfg.factores[k], 100)
    IN  [ valorDia             |-> valorDia,
          auxDia               |-> RatDivInt(RatInt(cfg.auxTransporte), 30),
          saludDia             |-> RatDivInt(RatMul(S, Rat(cfg.saludPct, 100)), 30),
          pensionDia           |-> RatDivInt(RatMul(S, Rat(cfg.pensionPct, 100)), 30),
          horaOrdinaria        |-> horaOrdinaria,
          horaExtraDiurna      |-> RatMul(horaOrdinaria, factor("horaExtraDiurna")),
          horaExtraNocturna    |-> RatMul(horaOrdinaria, factor("horaExtraNocturna")),
          recargoNocturno      |-> RatMul(horaOrdinaria, factor("recargoNocturno")),
          horaExtraDomDiurna   |-> RatMul(horaOrdinaria, factor("horaExtraDomDiurna")),
          horaExtraDomNocturna |-> RatMul(horaOrdinaria, factor("horaExtraDomNocturna")),
          dominicalSinComp     |-> RatMul(valorDia, factor("dominicalSinComp")),
          dominicalConComp     |-> RatMul(valorDia, factor("dominicalConComp")) ]

\* The destructuring of line 130 with salarioBase added to it: the variant in
\* which line 152 finds a binding.
DestructuredConSalarioBase == {"auxTransporte", "nombres", "cedula", "salarioBase"}

\* const { auxTransporte, nombres, cedula } = empleado;
DestructuredFromEmpleado == {"auxTransporte", "nombres", "cedula"}

\* const { diasLaborados = 7, ... prestamo = 0 } = novedades;
DestructuredFromNovedades ==
    {"diasLaborados", "horasExtraDiurna", "horasExtraNocturna", "horasRecargoNocturno",
     "horasExtraDomDiurna", "horasExtraDomNocturna", "dominicalSinComp",
     "dominicalConComp", "bonificacion", "prestamo"}

\* Every binding an identifier used inside calcularNominaSemanal can resolve
\* to: its parameters and locals, then the declarations of the module.
ScopeCalcularNominaSemanal ==
    {"empleado", "novedades", "config", "errores", "salarioBaseReal", "base",
     "salarioDevengado", "tieneAuxilio", "auxDevengado", "valorHorasExtraDiurna",
     "valorHorasExtraNocturna", "valorRecargoNocturno", "valorHorasExtraDomDiurna",
     "valorHorasExtraDomNocturna", "valorDominicalSinComp", "valorDominicalConComp",
     "totalExtras", "totalDevengadoSalarial", "deduccionSalud", "deduccionPension",
     "deduccionPrestamo", "totalDeducciones", "valorNominaSemanal", "valorBoniSemanal",
     "totalNomina", "totalConsignado"}
    \cup DestructuredFromEmpleado \cup DestructuredFromNovedades
    \cup {"createError", "validarDatos", "calcularValoresBase", "calcularNominaSemanal",
          "calcularNominaMensual", "redondear", "formatearMoneda"}

\* novedades.k with the destructuring default d
Default(novedades, k, d) == IF Has(novedades, k) THEN novedades[k] ELSE d

RatTimes(q, r) == RatMul(RatInt(q), r)

\* Lines 131-142: the quantities of the period, defaults applied
Cantidades(novedades) ==
    [ diasLaborados         |-> Default(novedades, "diasLaborados", 7),
      horasExtraDiurna      |-> Default(novedades, "horasExtraDiurna", 0),
      horasExtraNocturna    |-> Default(novedades, "horasExtraNocturna", 0),
      horasRecargoNocturno  |-> Default(novedades, "horasRecargoNocturno", 0),
      horasExtraDomDiurna   |-> Default(novedades, "horasExtraDomDiurna", 0),
      horasExtraDomNocturna |-> Default(novedades, "horasExtraDomNocturna", 0),
      dominicalSinComp      |-> Default(novedades, "dominicalSinComp", 0),
      dominicalConComp      |-> Default(novedades, "dominicalConComp", 0),
      bonificacion          |-> Centavos(Default(novedades, "bonificacion", 0)),
      prestamo              |-> Centavos(Default(novedades, "prestamo", 0)) ]

\* Lines 149-175: every item in full precision
ValoresPorConcepto(q, base, tieneAuxilio) ==
    [ salarioDevengado |-> RatTimes(q.diasLaborados, base.valorDia),
      auxDevengado     |-> IF tieneAuxilio THEN RatTimes(q.diasLaborados, base.auxDia)
                           ELSE RatInt(0),
      valorHorasExtraDiurna      |-> RatTimes(q.horasExtraDiurna, base.horaExtraDiurna),
      valorHorasExtraNocturna    |-> RatTimes(q.horasExtraNocturna, base.horaExtraNocturna),
      valorRecargoNocturno       |-> RatTimes(q.horasRecargoNocturno, base.recargoNocturno),
      valorHorasExtraDomDiurna   |-> RatTimes(q.horasExtraDomDiurna, base.horaExtraDomDiurna),
      valorHorasExtraDomNocturna |-> RatTimes(q.horasExtraDomNocturna, base.horaExtraDomNocturna),
      valorDominicalSinComp      |-> RatTimes(q.dominicalSinComp, base.dominicalSinComp),
      valorDominicalConComp      |-> RatTimes(q.dominicalConComp, base.dominicalConComp),
      deduccionSalud    |-> RatTimes(q.diasLaborados, base.saludDia),
      deduccionPension  |-> RatTimes(q.diasLaborados, base.pensionDia),
      deduccionPrestamo |-> q.prestamo ]

\* Lines 164-166
SumaExtras(v) ==
    RatAdd(RatAdd(RatAdd(RatAdd(RatAdd(RatAdd(
        v.valorHorasExtraDiurna, v.valorHorasExtraNocturna), v.valorRecargoNocturno),
        v.valorHorasExtraDomDiurna), v.valorHorasExtraDomNocturna),
        v.valorDominicalSinComp), v.valorDominicalConComp)

\* Lines 169 and 177
Acumulados(v, totalExtras) ==
    [ totalExtras            |-> totalExtras,
      totalDevengadoSalarial |-> RatAdd(v.salarioDevengado, totalExtras),
      totalDeducciones       |-> RatAdd(RatAdd(v.deduccionSalud, v.deduccionPension),
                                        v.deduccionPrestamo) ]

\* Lines 187 and 190
Netos(valorNominaSemanal, valorBoniSemanal) ==
    [ valorNominaSemanal |-> valorNominaSemanal,
      valorBoniSemanal   |-> valorBoniSemanal,
      totalNomina        |-> RatAdd(valorNominaSemanal, valorBoniSemanal),
      totalConsignado    |-> valorNominaSemanal ]

\* Lines 181 and 184
NetosDe(q, v, a) ==
    Netos(RatSub(RatSub(RatAdd(a.totalDevengadoSalarial, v.auxDevengado), v.deduccionSalud),
                 v.deduccionPension),
          RatSub(q.bonificacion, v.deduccionPrestamo))

Detalle(cantidad, valor) == [cantidad |-> cantidad, valor |-> redondear(valor)]

\* Lines 193-244: the warning and the returned object
Resultado(empleado, q, salarioBase, tieneAuxilio, base, v, a, n) ==
    [ warn  |-> n.totalNomina.n < 0,
      value |->
        [ cedula           |-> empleado.cedula,
          nombres          |-> empleado.nombres,
          diasLaborados    |-> q.diasLaborados,
          salarioBase      |-> salarioBase,
          auxTransporte    |-> IF tieneAuxilio THEN empleado.auxTransporte ELSE 0,
          salarioDevengado |-> redondear(v.salarioDevengado),
          auxDevengado     |-> redondear(v.auxDevengado),
          totalExtras      |-> redondear(a.totalExtras),
          detalleExtras    |->
            [ horasExtraDiurna      |-> Detalle(q.horasExtraDiurna, v.valorHorasExtraDiurna),
              horasExtraNocturna    |-> Detalle(q.horasExtraNocturna, v.valorHorasExtraNocturna),
              recargoNocturno       |-> Detalle(q.horasRecargoNocturno, v.valorRecargoNocturno),
              horasExtraDomDiurna   |-> Detalle(q.horasExtraDomDiurna, v.valorHorasExtraDomDiurna),
              horasExtraDomNocturna |-> Detalle(q.horasExtraDomNocturna,
                                                v.valorHorasExtraDomNocturna),
              dominicalSinComp      |-> Detalle(q.dominicalSinComp, v.valorDominicalSinComp),
              dominicalConComp      |-> Detalle(q.dominicalConComp, v.valorDominicalConComp) ],
          bonificacion     |-> redondear(q.bonificacion),
          totalDevengado   |->
            redondear(RatAdd(RatAdd(a.totalDevengadoSalarial, v.auxDevengado), q.bonificacion)),
          deduccionSalud     |-> redondear(v.deduccionSalud),
          deduccionPension   |-> redondear(v.deduccionPension),
          deduccionPrestamo  |-> redondear(v.deduccionPrestamo),
          totalDeducciones   |-> redondear(a.totalDeducciones),
          valorNominaSemanal |-> redondear(n.valorNominaSemanal),
          valorBoniSemanal   |-> redondear(n.valorBoniSemanal),
          totalNomina        |-> redondear(n.totalNomina),
          totalConsignado    |-> redondear(n.totalConsignado),
          valoresBase |->
            [ valorDia      |-> redondear(base.valorDia),
              auxDia        |-> redondear(base.auxDia),
              horaOrdinaria |-> redondear(base.horaOrdinaria),
              saludDia      |-> redondear(base.saludDia),
              pensionDia    |-> redondear(base.pensionDia) ] ] ]

ConAcumulados(empleado, q, salarioBase, tieneAuxilio, base, v, a) ==
    Resultado(empleado, q, salarioBase, tieneAuxilio, base, v, a, NetosDe(q, v, a))

ConValores(empleado, q, salarioBase, tieneAuxilio, base, v) ==
    ConAcumulados(empleado, q, salarioBase, tieneAuxilio, base, v,
                  Acumulados(v, SumaExtras(v)))

ConBase(empleado, q, cfg, salarioBase, base) ==
    ConValores(empleado, q, salarioBase, salarioBase <= cfg.smmlv * 2, base,
               ValoresPorConcepto(q, base, salarioBase <= cfg.smmlv * 2))

\* Lines 122-244 for inputs that passed validation and a config that has its
\* factor table; salarioBase is the value the identifier of that name yields.
\* salarioBaseReal is config.smmlv for an employee flagged esSalarioMinimo.
liquidacionDe(empleado, novedades, cfg, salarioBase) ==
    ConBase(empleado, Cantidades(novedades), cfg, salarioBase,
            calcularValoresBase(IF Has(empleado, "esSalarioMinimo") /\ empleado.esSalarioMinimo
                                THEN cfg.smmlv ELSE empleado.salarioBase, cfg))

Devuelve(r) == [kind |-> "return", value |-> r.value, warn |-> r.warn]

\* Lines 116-244 given the list validarDatos returned.  calcularValoresBase
\* reads config.factores.<kind>; line 152 reads the identifier salarioBase.
Calculada(empleado, novedades, cfg, errores) ==
    IF Len(errores) > 0
    THEN Throw(Put(createError("VALIDATION_ERROR", "Error en los datos de entrada"),
                   "details", errores))
    ELSE IF ~Has(cfg, "factores")
    THEN Throw(TypeError)
    ELSE IF "salarioBase" \notin ScopeCalcularNominaSemanal
    THEN Throw(ReferenceError("salarioBase"))
    ELSE Devuelve(liquidacionDe(empleado, novedades, cfg, empleado.salarioBase))

\* The outcome of a call: [kind |-> "return", value, warn] or [kind |-> "throw", error]
calcularNominaSemanal(empleado, novedades, cfg) ==
    Calculada(empleado, novedades, cfg, validarDatos(empleado, novedades, cfg))

\* resultado.tipoNomina = 'MENSUAL' on the object the weekly computation returned
Etiquetada(resultado) ==
    IF resultado.kind = "return"
    THEN [resultado EXCEPT !.value = Put(resultado.value, "tipoNomina", "MENSUAL")]
    ELSE resultado

\* { ...novedades, diasLaborados: novedades.diasLaborados || 30 }, then the
\* weekly computation; novedades.diasLaborados of a null novedades is a TypeError.
calcularNominaMensual(empleado, novedades, cfg) ==
    IF IsNull(novedades) THEN Throw(TypeError)
    ELSE Etiquetada(calcularNominaSemanal(
             empleado,
             Put(novedades, "diasLaborados",
                 IF Falsy(novedades, "diasLaborados") THEN 30 ELSE novedades.diasLaborados),
             cfg))

(***************************************************************************)
(* The stores and their first contents                                     *)
(***************************************************************************)
EmptyObject == <<>>

\* routes/config.js, leerConfig: the configuration written when none exists
configDefault ==
    [ smmlv         |-> 1000000,
      auxTransporte |-> 117172,
      saludPct      |-> 4,
      pensionPct    |-> 4,
      horaDivisor   |-> 240,
      factores      |-> [ horaExtraDiurna      |-> 125,
                          horaExtraNocturna    |-> 175,
                          recargoNocturno      |-> 135,
                          horaExtraDomDiurna   |-> 200,
                          horaExtraDomNocturna |-> 250,
                          dominicalSinComp     |-> 175,
                          dominicalConComp     |-> 75 ],
      year          |-> 2022 ]

\* The novelties of the documented example (API.md, FORMULAS.md)
NovedadesReferencia ==
    [ diasLaborados |-> 7, horasExtraDiurna |-> 0, horasExtraNocturna |-> 0,
      bonificacion |-> 20645987, prestamo |-> 0 ]

Periodos == {"2022-S19", "2022-S20"}

NoNomina == Null

Idle == [op |-> "none"]

MaxWrites == 3

MaxEmpleados == 3

\* The response of a handler that threw err (asyncHandler -> errorHandler)
Rejected(op, err) == Put(errorHandler(err), "op", op)

\* A request that fails answers through errorHandler and writes nothing.
Fail(op, err) ==
    /\ res' = Rejected(op, err)
    /\ UNCHANGED <<empleados, config, nominas, now, calcIn, calcOut>>

\* array.findIndex(x => x.cedula === cedula), 1-based; 0 stands for -1
findIndexCedula(s, cedula) ==
    IF \E i \in 1..Len(s) : StrictEq(s[i].cedula, cedula)
    THEN CHOOSE i \in 1..Len(s) :
             /\ StrictEq(s[i].cedula, cedula)
             /\ \A j \in 1..(i - 1) : ~StrictEq(s[j].cedula, cedula)
    ELSE 0

RemoveAt(s, i) == SubSeq(s, 1, i - 1) \o SubSeq(s, i + 1, Len(s))

(***************************************************************************)
(* routes/empleados.js                                                     *)
(***************************************************************************)
\* nombres.toUpperCase().trim() on the names the requests use
UpperTrim(n) == IF n = " ana" THEN "ANA" ELSE n

\* Number(x) || d for a numeric body property that may be undefined
NumberOr(body, k, d) == IF Falsy(body, k) THEN d ELSE body[k]

PostBodies ==
    { [cedula |-> Str(1), nombres |-> " ana"],
      [cedula |-> Num(1), nombres |-> " ana"],
      [cedula |-> Num(2), nombres |-> " ana", salarioBase |-> -1000000],
      [cedula |-> Null, nombres |-> " ana"],
      [cedula |-> Str(2)] }

PostEmpleado(body) ==
    IF IsNull(body.cedula) \/ ~Has(body, "nombres")
    THEN Fail("postEmpleado", createError("EMP_INVALID_DATA", "Cedula y nombres son requeridos"))
    ELSE IF \E i \in 1..Len(empleados) : StrictEq(empleados[i].cedula, body.cedula)
    THEN Fail("postEmpleado", createError("EMP_DUPLICATE", "Ya existe un empleado con esa cedula"))
    ELSE LET nuevoEmpleado ==
                 [ cedula        |-> String(body.cedula),
                   nombres       |-> UpperTrim(body.nombres),
                   cuenta        |-> "",
                   tipoCuenta    |-> "AHORROS",
                   salarioBase   |-> NumberOr(body, "salarioBase", 1000000),
                   auxTransporte |-> NumberOr(body, "auxTransporte", 117172),
                   activo        |-> TRUE,
                   createdAt     |-> now,
                   updatedAt     |-> now ]
         IN  /\ now <= MaxWrites
             /\ Len(empleados) < MaxEmpleados
             /\ empleados' = Append(empleados, nuevoEmpleado)
             /\ now' = now + 1
             /\ res' = [op |-> "postEmpleado", success |-> TRUE, code |-> "OK",
                        status |-> 201, data |-> nuevoEmpleado]
             /\ UNCHANGED <<config, nominas, calcIn, calcOut>>

\* The PUT /empleados/:cedula requests: the digits of :cedula and the body
PutRequests ==
    { [cedula |-> 1, updates |-> [salarioBase |-> 0, cedula |-> Str(9), createdAt |-> 99]],
      [cedula |-> 1, updates |-> [esSalarioMinimo |-> TRUE, nombres |-> " ana"]],
      [cedula |-> 2, updates |-> [salarioBase |-> 0, cedula |-> Str(9), createdAt |-> 99]] }

\* The DELETE /empleados/:cedula requests: hardDelete is ?hardDelete=true
DeleteRequests ==
    { [cedula |-> 1, hardDelete |-> FALSE],
      [cedula |-> 1, hardDelete |-> TRUE],
      [cedula |-> 2, hardDelete |-> FALSE] }

\* The variant without the two delete statements of lines 154-155: the body's
\* cedula and createdAt are spread over the entry like any other property
PutEmpleadoSinDelete(cedula, updates) ==
    LET index == findIndexCedula(empleados, Str(cedula))
    IN  IF index = 0
        THEN Fail("putEmpleado", createError("EMP_NOT_FOUND", "Empleado no encontrado"))
        ELSE LET merged  == Put(Spread(empleados[index], updates), "updatedAt", now)
                 updated == IF Has(updates, "nombres")
                            THEN [merged EXCEPT !.nombres = UpperTrim(updates.nombres)]
                            ELSE merged
             IN  /\ now <= MaxWrites
                 /\ empleados' = [empleados EXCEPT ![index] = updated]
                 /\ now' = now + 1
                 /\ res' = [op |-> "putEmpleado", success |-> TRUE, code |-> "OK",
                            status |-> 200, data |-> updated]
                 /\ UNCHANGED <<config, nominas, calcIn, calcOut>>

\* cedula is the digits of the :cedula path parameter, always a string
PutEmpleado(cedula, updates) ==
    LET index == findIndexCedula(empleados, Str(cedula))
    IN  IF index = 0
        THEN Fail("putEmpleado", createError("EMP_NOT_FOUND", "Empleado no encontrado"))
        ELSE LET kept    == Omit(updates, {"cedula", "createdAt"})
                 merged  == Put(Spread(empleados[index], kept), "updatedAt", now)
                 updated == IF Has(kept, "nombres")
                            THEN [merged EXCEPT !.nombres = UpperTrim(kept.nombres)]
                            ELSE merged
             IN  /\ now <= MaxWrites
                 /\ empleados' = [empleados EXCEPT ![index] = updated]
                 /\ now' = now + 1
                 /\ res' = [op |-> "putEmpleado", success |-> TRUE, code |-> "OK",
                            status |-> 200, data |-> updated]
                 /\ UNCHANGED <<config, nominas, calcIn, calcOut>>

DeleteEmpleado(cedula, hardDelete) ==
    LET index == findIndexCedula(empleados, Str(cedula))
    IN  IF index = 0
        THEN Fail("deleteEmpleado", createError("EMP_NOT_FOUND", "Empleado no encontrado"))
        ELSE IF hardDelete
        THEN /\ now <= MaxWrites
             /\ empleados' = RemoveAt(empleados, index)
             /\ now' = now + 1
             /\ res' = [op |-> "deleteEmpleado", success |-> TRUE, code |-> "OK",
                        status |-> 200, data |-> empleados[index]]
             /\ UNCHANGED <<config, nominas, calcIn, calcOut>>
        ELSE LET updated == [empleados[index] EXCEPT !.activo = FALSE, !.updatedAt = now]
             IN  /\ now <= MaxWrites
                 /\ empleados' = [empleados EXCEPT ![index] = updated]
                 /\ now' = now + 1
                 /\ res' = [op |-> "deleteEmpleado", success |-> TRUE, code |-> "OK",
                            status |-> 200, data |-> updated]
                 /\ UNCHANGED <<config, nominas, calcIn, calcOut>>

(***************************************************************************)
(* routes/nominas.js                                                       *)
(***************************************************************************)
Fecha(d) == [date |-> d]

RECURSIVE Sum(_, _)
\* array.reduce((sum, l) => sum + l[k], 0)
Sum(s, k) == IF Len(s) = 0 THEN 0 ELSE Sum(SubSeq(s, 1, Len(s) - 1), k) + s[Len(s)][k]

\* The variant whose reduce calls start from 1 instead of 0
totalesDesdeUno(liquidaciones) ==
    [ totalNomina     |-> 1 + Sum(liquidaciones, "totalNomina"),
      totalConsignado |-> 1 + Sum(liquidaciones, "totalConsignado") ]

\* totales recomputed over the settlements of a batch
totalesDe(liquidaciones) ==
    [ totalNomina     |-> Sum(liquidaciones, "totalNomina"),
      totalConsignado |-> Sum(liquidaciones, "totalConsignado") ]

\* tipoNomina === 'MENSUAL' ? calcularNominaMensual : calcularNominaSemanal
calcular(tipoNomina, empleado, novedades, cfg) ==
    IF tipoNomina = "MENSUAL" THEN calcularNominaMensual(empleado, novedades, cfg)
    ELSE calcularNominaSemanal(empleado, novedades, cfg)

\* the three properties the routes add to the engine's result
Sellada(liquidacion, periodo, tipoNomina, t) ==
    Put(Put(Put(liquidacion, "periodo", periodo), "tipoNomina", tipoNomina), "liquidadoAt", t)

\* Lines 185-196 of POST /liquidar: the batch of a period that has none yet
nominaNueva(periodo, tipoNomina, t) ==
    [ periodo       |-> periodo,
      tipoNomina    |-> tipoNomina,
      estado        |-> "borrador",
      fechaInicio   |-> Null,
      fechaFin      |-> Null,
      liquidaciones |-> <<>>,
      totales       |-> [totalNomina |-> 0, totalConsignado |-> 0],
      creadoAt      |-> t ]

\* Lines 208-213: the totals recomputed over the list, and procesadoAt
Recalculada(nomina, liquidaciones, t) ==
    Put(Put(Put(nomina, "liquidaciones", liquidaciones),
            "totales", totalesDe(liquidaciones)),
        "procesadoAt", t)

\* Lines 200-206: replace the settlement found at existeIndex, or append
Reemplazada(liquidaciones, existeIndex, liquidacion) ==
    IF existeIndex > 0
    THEN [liquidaciones EXCEPT ![existeIndex] = liquidacion]
    ELSE Append(liquidaciones, liquidacion)

\* Lines 200-213 on the batch in hand
upsertEn(nomina, cedula, liquidacion, t) ==
    Recalculada(nomina,
                Reemplazada(nomina.liquidaciones,
                            findIndexCedula(nomina.liquidaciones, cedula),
                            liquidacion),
                t)

\* Lines 181-213 of POST /liquidar: the batch read from the store (or the new
\* shell), with the settlement replaced or appended and the totals recomputed.
upsertLiquidacion(leida, periodo, tipoNomina, cedula, liquidacion, t) ==
    upsertEn(IF IsNull(leida) THEN nominaNueva(periodo, tipoNomina, t) ELSE leida,
             cedula, liquidacion, t)

\* novedades || {} of POST /liquidar
novedadesDeBody(body) == IF IsNull(body.novedades) THEN EmptyObject ELSE body.novedades

\* The request bodies of POST /liquidar, defaults applied: cedula Null and
\* periodo "" stand for a missing property, novedades Null for a missing one.
LiquidarBody(cedula, periodo, tipoNomina, novedades, guardar) ==
    [ cedula |-> cedula, periodo |-> periodo, tipoNomina |-> tipoNomina,
      novedades |-> novedades, guardar |-> guardar ]

LiquidarBodies ==
    { LiquidarBody(Str(1), "2022-S19", "SEMANAL", NovedadesReferencia, TRUE),
      LiquidarBody(Str(1), "2022-S19", "SEMANAL", NovedadesReferencia, FALSE),
      LiquidarBody(Str(1), "2022-S19", "MENSUAL", NovedadesReferencia, TRUE),
      LiquidarBody(Str(2), "2022-S19", "SEMANAL", NovedadesReferencia, TRUE),
      LiquidarBody(Str(1), "2022-S19", "SEMANAL", [diasLaborados |-> 31], TRUE),
      LiquidarBody(Null, "2022-S19", "SEMANAL", NovedadesReferencia, TRUE),
      LiquidarBody(Num(1), "2022-S19", "SEMANAL", NovedadesReferencia, TRUE),
      LiquidarBody(Str(1), "", "SEMANAL", NovedadesReferencia, TRUE),
      LiquidarBody(Str(1), "2022-S20", "SEMANAL", Null, TRUE) }

\* Lines 172-224: the response, and the batch saved when guardar is set
LiquidarGuardar(body, liquidacion) ==
    /\ res' = [op |-> "liquidar", success |-> TRUE, code |-> "OK", status |-> 200,
               guardado |-> body.guardar, data |-> liquidacion]
    /\ IF body.guardar
       THEN /\ now <= MaxWrites
            /\ nominas' = [nominas EXCEPT ![body.periodo] =
                             upsertLiquidacion(nominas[body.periodo], body.periodo,
                                               body.tipoNomina, body.cedula,
                                               liquidacion, now)]
            /\ now' = now + 1
       ELSE UNCHANGED <<nominas, now>>
    /\ UNCHANGED <<empleados, config, calcIn, calcOut>>

\* The variant that creates the batch of the period before it looks at the
\* outcome of the computation
LiquidarCreandoAntes(body, out) ==
    IF out.kind = "throw"
    THEN /\ res' = Rejected("liquidar", out.error)
         /\ nominas' = [nominas EXCEPT ![body.periodo] =
                          IF IsNull(@)
                          THEN nominaNueva(body.periodo, body.tipoNomina, now)
                          ELSE @]
         /\ UNCHANGED <<empleados, config, now, calcIn, calcOut>>
    ELSE LiquidarGuardar(body, Sellada(out.value, body.periodo, body.tipoNomina, now))

\* Line 170: an error thrown by the engine leaves the handler
LiquidarCalculada(body, out) ==
    IF out.kind = "throw"
    THEN Fail("liquidar", out.error)
    ELSE LiquidarGuardar(body, Sellada(out.value, body.periodo, body.tipoNomina, now))

\* Lines 162-170: index is where empleados.find stops, 0 for undefined
LiquidarEmpleado(body, index) ==
    IF index = 0
    THEN Fail("liquidar", createError("EMP_NOT_FOUND", "Empleado no encontrado"))
    ELSE LiquidarCalculada(body,
             calcular(body.tipoNomina, empleados[index],
                      IF IsNull(body.novedades) THEN EmptyObject ELSE body.novedades,
                      config))

Liquidar(body) ==
    IF IsNull(body.cedula)
    THEN Fail("liquidar", createError("VALIDATION_ERROR", "La cedula es requerida"))
    ELSE IF body.periodo = ""
    THEN Fail("liquidar", createError("VALIDATION_ERROR", "El periodo es requerido"))
    ELSE LiquidarEmpleado(body,
             findIndexCedula(empleados, body.cedula))

\* novedadesPorEmpleado[empleado.cedula] || {} ; the keys are cedula digits
Override(porEmpleado, cedula) ==
    IF cedula.v \in DOMAIN porEmpleado /\ ~IsNull(porEmpleado[cedula.v])
    THEN porEmpleado[cedula.v]
    ELSE EmptyObject

\* The variant that spreads the defaults last, so that a default wins
novedadesDefaultGana(novedadesDefault, novedadesPorEmpleado, empleado) ==
    Spread(Override(novedadesPorEmpleado, empleado.cedula), novedadesDefault)

\* Lines 277-280: { ...novedadesDefault, ...(novedadesPorEmpleado[cedula] || {}) }
novedadesDeEmpleado(novedadesDefault, novedadesPorEmpleado, empleado) ==
    Spread(novedadesDefault, Override(novedadesPorEmpleado, empleado.cedula))

\* Lines 279-286: the settlements pushed by the iterations that returned
liquidacionesDe(buenas, body, t) ==
    [i \in 1..Len(buenas) |->
       Sellada(buenas[i].out.value, body.periodo, body.tipoNomina, t)]

\* Lines 287-294: the entries pushed by the iterations that threw
erroresDe(malas) ==
    [i \in 1..Len(malas) |->
       [ cedula  |-> malas[i].empleado.cedula,
         nombres |-> malas[i].empleado.nombres,
         error   |-> malas[i].out.error.message ]]

\* The outcomes up to and including the first one that threw
HastaPrimerError(outs) ==
    SelectSeq([i \in 1..Len(outs) |-> [i |-> i, empleado |-> outs[i].empleado,
                                       out |-> outs[i].out]],
              LAMBDA o : \A j \in 1..(o.i - 1) : outs[j].out.kind = "return")

\* The variant without the try/catch of one's own: the loop ends at the first
\* iteration that throws
repartirHastaError(outs, body, t) ==
    [ liquidaciones |->
        liquidacionesDe(SelectSeq(HastaPrimerError(outs), LAMBDA o : o.out.kind = "return"),
                        body, t),
      errores |->
        erroresDe(SelectSeq(HastaPrimerError(outs), LAMBDA o : o.out.kind = "throw")) ]

\* Lines 275-295: every iteration runs; each outcome lands in one list
repartir(outs, body, t) ==
    [ liquidaciones |-> liquidacionesDe(SelectSeq(outs, LAMBDA o : o.out.kind = "return"),
                                        body, t),
      errores       |-> erroresDe(SelectSeq(outs, LAMBDA o : o.out.kind = "throw")) ]

\* Lines 272-295 of POST /liquidar-all: the loop over the active employees,
\* each in its own try/catch.  The result is the pair of lists it builds.
bulkSettle(empleadosActivos, body, cfg, t) ==
    repartir([i \in 1..Len(empleadosActivos) |->
                [ empleado |-> empleadosActivos[i],
                  out |-> calcular(body.tipoNomina, empleadosActivos[i],
                                   novedadesDeEmpleado(body.novedadesDefault,
                                                       body.novedadesPorEmpleado,
                                                       empleadosActivos[i]),
                                   cfg) ]],
             body, t)

\* The request bodies of POST /liquidar-all, defaults applied: periodo ""
\* stands for a missing periodo, fechaInicio Null for a missing date.
LiquidarAllBody(periodo, tipoNomina, fecha, novedadesDefault, novedadesPorEmpleado) ==
    [ periodo |-> periodo, tipoNomina |-> tipoNomina,
      fechaInicio |-> fecha, fechaFin |-> fecha,
      novedadesDefault |-> novedadesDefault,
      novedadesPorEmpleado |-> novedadesPorEmpleado ]

LiquidarAllBodies ==
    { LiquidarAllBody("2022-S19", "SEMANAL", Null, [diasLaborados |-> 7], EmptyObject),
      LiquidarAllBody("2022-S19", "SEMANAL", Null, [diasLaborados |-> 7],
                      (1 :> [diasLaborados |-> 31, bonificacion |-> 5000000])),
      LiquidarAllBody("2022-S20", "MENSUAL", Fecha("2022-05-09"), EmptyObject, EmptyObject),
      LiquidarAllBody("", "SEMANAL", Null, [diasLaborados |-> 7], EmptyObject) }

\* Lines 298-312: the batch built from the two lists; errores: undefined is
\* dropped by JSON.stringify
nominaDe(body, r, t) ==
    Spread([ periodo       |-> body.periodo,
             tipoNomina    |-> body.tipoNomina,
             estado        |-> "borrador",
             fechaInicio   |-> body.fechaInicio,
             fechaFin      |-> body.fechaFin,
             liquidaciones |-> r.liquidaciones,
             totales       |-> totalesDe(r.liquidaciones),
             creadoAt      |-> t,
             procesadoAt   |-> t ],
           IF Len(r.errores) > 0 THEN [errores |-> r.errores] ELSE EmptyObject)

\* Lines 314-328: the batch saved over the period's file, and the response
\* (errores: undefined is dropped from it too)
LiquidarAllGuardar(body, r, nomina) ==
    /\ now <= MaxWrites
    /\ nominas' = [nominas EXCEPT ![body.periodo] = nomina]
    /\ now' = now + 1
    /\ res' = [op |-> "liquidarAll", success |-> TRUE, code |-> "OK", status |-> 200,
               data |-> Spread([ periodo |-> body.periodo,
                                 empleadosLiquidados |-> Len(r.liquidaciones),
                                 empleadosConError |-> Len(r.errores),
                                 totales |-> nomina.totales ],
                               IF Len(r.errores) > 0 THEN [errores |-> r.errores]
                               ELSE EmptyObject)]
    /\ UNCHANGED <<empleados, config, calcIn, calcOut>>

LiquidarAllLote(body, r) == LiquidarAllGuardar(body, r, nominaDe(body, r, now))

\* Lines 263-272
LiquidarAllActivos(body, empleadosActivos) ==
    IF Len(empleadosActivos) = 0
    THEN Fail("liquidarAll",
              createError("VALIDATION_ERROR", "No hay empleados activos para liquidar"))
    ELSE LiquidarAllLote(body, bulkSettle(empleadosActivos, body, config, now))

LiquidarAll(body) ==
    IF body.periodo = ""
    THEN Fail("liquidarAll", createError("VALIDATION_ERROR", "El periodo es requerido"))
    ELSE LiquidarAllActivos(body, SelectSeq(empleados, LAMBDA e : e.activo))

\* The variant without the guard of lines 344-346: an approved batch is
\* approved again and aprobadoAt stamped anew
AprobarSinCierre(periodo) ==
    IF IsNull(nominas[periodo])
    THEN Fail("aprobar", createError("NOMINA_NOT_FOUND", "Periodo no encontrado"))
    ELSE /\ now <= MaxWrites
         /\ nominas' = [nominas EXCEPT ![periodo] =
                          Put(Put(nominas[periodo], "estado", "aprobada"), "aprobadoAt", now)]
         /\ now' = now + 1
         /\ res' = [op |-> "aprobar", success |-> TRUE, code |-> "OK", status |-> 200,
                    data |-> [ periodo |-> periodo, estado |-> "aprobada",
                               totales |-> nominas[periodo].totales ]]
         /\ UNCHANGED <<empleados, config, calcIn, calcOut>>

Aprobar(periodo) ==
    LET nomina == nominas[periodo]
    IN  IF IsNull(nomina)
        THEN Fail("aprobar", createError("NOMINA_NOT_FOUND", "Periodo no encontrado"))
        ELSE IF nomina.estado = "aprobada"
        THEN Fail("aprobar", createError("NOMINA_ALREADY_CLOSED", "Este periodo ya esta aprobado"))
        ELSE LET aprobada == Put(Put(nomina, "estado", "aprobada"), "aprobadoAt", now)
             IN  /\ now <= MaxWrites
                 /\ nominas' = [nominas EXCEPT ![periodo] = aprobada]
                 /\ now' = now + 1
                 /\ res' = [op |-> "aprobar", success |-> TRUE, code |-> "OK", status |-> 200,
                            data |-> [ periodo |-> periodo, estado |-> aprobada.estado,
                                       totales |-> aprobada.totales ]]
                 /\ UNCHANGED <<empleados, config, calcIn, calcOut>>

(***************************************************************************)
(* The server: the three stores and the requests on them                   *)
(***************************************************************************)
EmpleadoInicial(c, sb, act) ==
    [ cedula |-> Str(c), nombres |-> "ANA", cuenta |-> "", tipoCuenta |-> "AHORROS",
      salarioBase |-> sb, auxTransporte |-> 117172, activo |-> act,
      createdAt |-> 0, updatedAt |-> 0 ]

\* The rosters the server starts from (data/empleados.json as the roster
\* routes leave it): empty, one employee, two employees of which the second
\* was created with a negative salary, and those two with a third that was
\* deactivated.
RostersIniciales ==
    { <<>>,
      <<EmpleadoInicial(1, 1000000, TRUE)>>,
      <<EmpleadoInicial(1, 1000000, TRUE), EmpleadoInicial(2, -1000000, TRUE)>>,
      <<EmpleadoInicial(1, 1000000, TRUE), EmpleadoInicial(2, -1000000, TRUE),
        EmpleadoInicial(3, 1000000, FALSE)>> }

Init ==
    /\ empleados \in RostersIniciales
    /\ config = configDefault
    /\ nominas = [p \in Periodos |-> NoNomina]
    /\ now = 1
    /\ res = Idle
    /\ calcIn = Null
    /\ calcOut = [fn |-> "none"]

Next ==
    \/ \E body \in PostBodies : PostEmpleado(body)
    \/ \E r \in PutRequests : PutEmpleado(r.cedula, r.updates)
    \/ \E r \in DeleteRequests : DeleteEmpleado(r.cedula, r.hardDelete)
    \/ \E body \in LiquidarBodies : Liquidar(body)
    \/ \E body \in LiquidarAllBodies : LiquidarAll(body)
    \/ \E periodo \in Periodos : Aprobar(periodo)

Spec == Init /\ [][Next]_vars

(***************************************************************************)
(* The engine on its own: inputs drawn from bounded sets                   *)
(***************************************************************************)
EngineEmpleado(sb, minimo) ==
    [ cedula |-> Str(1), nombres |-> "ANA", salarioBase |-> sb,
      auxTransporte |-> 117172, esSalarioMinimo |-> minimo, activo |-> TRUE ]

EngineEmpleados ==
    { EngineEmpleado(sb, m) : sb \in {1000000, 3000000, -1000000, 0}, m \in BOOLEAN }

EngineNovedades ==
    { NovedadesReferencia,
      EmptyObject,
      Null,
      [diasLaborados |-> 0],
      [diasLaborados |-> 31],
      [diasLaborados |-> 7, prestamo |-> 50000000],
      [diasLaborados |-> 7, bonificacion |-> -100],
      [diasLaborados |-> 6, horasExtraDiurna |-> 2, dominicalSinComp |-> 1],
      [diasLaborados |-> 7],
      [diasLaborados |-> 30],
      [diasLaborados |-> 7, horasRecargoNocturno |-> -2],
      [diasLaborados |-> 7, dominicalConComp |-> -1, bonificacion |-> 1000000] }

\* the default configuration, one whose smmlv is 0, and none
EngineConfigs == { configDefault, [configDefault EXCEPT !.smmlv = 0], Null }

InitEngine ==
    /\ empleados = <<>>
    /\ config = configDefault
    /\ nominas = [p \in Periodos |-> NoNomina]
    /\ now = 1
    /\ res = Idle
    /\ calcIn \in [empleado : EngineEmpleados, novedades : EngineNovedades,
                   config : EngineConfigs]
    /\ calcOut = [fn |-> "none"]

EngineSemanal ==
    /\ calcOut.fn = "none"
    /\ calcOut' = [fn  |-> "calcularNominaSemanal",
                   out |-> calcularNominaSemanal(calcIn.empleado, calcIn.novedades,
                                                 calcIn.config)]
    /\ UNCHANGED <<empleados, config, nominas, now, res, calcIn>>

EngineMensual ==
    /\ calcOut.fn = "none"
    /\ calcOut' = [fn  |-> "calcularNominaMensual",
                   out |-> calcularNominaMensual(calcIn.empleado, calcIn.novedades,
                                                 calcIn.config)]
    /\ UNCHANGED <<empleados, config, nominas, now, res, calcIn>>

\* calcularValoresBase called with the stored salary; config.horaDivisor of a
\* null config is a TypeError
EngineValoresBase ==
    /\ calcOut.fn = "none"
    /\ calcOut' = [fn  |-> "calcularValoresBase",
                   out |-> IF IsNull(calcIn.config) \/ ~Has(calcIn.config, "factores")
                           THEN Throw(TypeError)
                           ELSE [kind  |-> "return",
                                 value |-> calcularValoresBase(calcIn.empleado.salarioBase,
                                                               calcIn.config)]]
    /\ UNCHANGED <<empleados, config, nominas, now, res, calcIn>>

NextEngine == EngineSemanal \/ EngineMensual \/ EngineValoresBase

SpecEngine == InitEngine /\ [][NextEngine]_vars

(***************************************************************************)
(* The novelties of one employee in a bulk settle, on their own            *)
(***************************************************************************)
\* novedadesDefault of the request body
DefaultsNovedades ==
    { EmptyObject,
      [diasLaborados |-> 7],
      [diasLaborados |-> 7, bonificacion |-> 5000000],
      [diasLaborados |-> 6, horasExtraDiurna |-> 2, prestamo |-> 100000] }

\* novedadesPorEmpleado of the request body, keyed by cedula digits
PorEmpleadoNovedades ==
    { EmptyObject,
      (1 :> [diasLaborados |-> 5]),
      (1 :> [bonificacion |-> 0, horasExtraNocturna |-> 3]),
      (1 :> [diasLaborados |-> 0, prestamo |-> 200000]) @@ (2 :> EmptyObject),
      (1 :> Null) @@ (2 :> [diasLaborados |-> 31]) }

InitNovedades ==
    /\ empleados = <<>>
    /\ config = configDefault
    /\ nominas = [p \in Periodos |-> NoNomina]
    /\ now = 1
    /\ res = Idle
    /\ calcIn \in [novedadesDefault : DefaultsNovedades,
                   novedadesPorEmpleado : PorEmpleadoNovedades,
                   empleado : {EmpleadoInicial(c, 1000000, TRUE) : c \in 1..3}]
    /\ calcOut = [fn |-> "none"]

MergeNovedades ==
    /\ calcOut.fn = "none"
    /\ calcOut' = [fn  |-> "novedades",
                   out |-> novedadesDeEmpleado(calcIn.novedadesDefault,
                                               calcIn.novedadesPorEmpleado,
                                               calcIn.empleado)]
    /\ UNCHANGED <<empleados, config, nominas, now, res, calcIn>>

SpecNovedades == InitNovedades /\ [][MergeNovedades]_vars

(***************************************************************************)
(* redondear called on its own                                             *)
(***************************************************************************)
\* the amounts handed to redondear: every multiple of a tenth of a centavo
\* from -MaxMilesimas to MaxMilesimas thousandths
MaxMilesimas == 30

InitRedondear ==
    /\ empleados = <<>>
    /\ config = configDefault
    /\ nominas = [p \in Periodos |-> NoNomina]
    /\ now = 1
    /\ res = Idle
    /\ calcIn \in [valor : {Rat(m, 1000) : m \in (-MaxMilesimas)..MaxMilesimas}]
    /\ calcOut = [fn |-> "none"]

EngineRedondear ==
    /\ calcOut.fn = "none"
    /\ calcOut' = [fn |-> "redondear", out |-> redondear(calcIn.valor)]
    /\ UNCHANGED <<empleados, config, nominas, now, res, calcIn>>

SpecRedondear == InitRedondear /\ [][EngineRedondear]_vars

(***************************************************************************)
(* Two POST /liquidar requests in flight.  The handler is an async         *)
(* function: it gives up control at each await (leerEmpleados, leerConfig, *)
(* leerNomina, guardarNomina), and the other request may run in between.   *)
(* calcIn holds the two request bodies; calcOut.req[r] holds the position  *)
(* of request r and the locals it carries across its awaits, and           *)
(* calcOut.enParalelo records whether a request ever ran a step while the  *)
(* other one was in flight.                                                *)
(***************************************************************************)
Solicitudes == 1..2

\* the roster of this scenario: two active employees
RosterDeDos == <<EmpleadoInicial(1, 1000000, TRUE), EmpleadoInicial(2, 3000000, TRUE)>>

\* the bodies request r may carry: its own employee, one period
CuerposDe(r) ==
    { LiquidarBody(Str(r), "2022-S19", tipoNomina, novedades, guardar) :
        tipoNomina \in {"SEMANAL", "MENSUAL"},
        novedades \in {NovedadesReferencia, [diasLaborados |-> 7], [diasLaborados |-> 31]},
        guardar \in BOOLEAN }

\* the handler has answered
Fin(respuesta) == [pc |-> "fin", res |-> respuesta]

\* res.json({ success: true, message, data: liquidacion })
RespuestaLiquidar(body, liquidacion) ==
    [op |-> "liquidar", success |-> TRUE, code |-> "OK", status |-> 200,
     guardado |-> body.guardar, data |-> liquidacion]

\* Lines 151-163: the required fields, then await leerEmpleados()
PasoInicio(body) ==
    IF IsNull(body.cedula)
    THEN Fin(Rejected("liquidar", createError("VALIDATION_ERROR", "La cedula es requerida")))
    ELSE IF body.periodo = ""
    THEN Fin(Rejected("liquidar", createError("VALIDATION_ERROR", "El periodo es requerido")))
    ELSE [pc |-> "leerEmpleados"]

\* Lines 163-164: the roster is in hand, then await leerConfig()
PasoLeerEmpleados == [pc |-> "leerConfig", empleados |-> empleados]

\* Lines 173-181 and 218-222: the result stamped, then await leerNomina(periodo)
\* when guardar is set and the response otherwise
PasoCalculada(body, out) ==
    IF out.kind = "throw"
    THEN Fin(Rejected("liquidar", out.error))
    ELSE IF body.guardar
    THEN [pc |-> "leerNomina",
          liquidacion |-> Sellada(out.value, body.periodo, body.tipoNomina, now)]
    ELSE Fin(RespuestaLiquidar(body, Sellada(out.value, body.periodo, body.tipoNomina, now)))

\* Lines 164-174: the config is in hand; find the employee and compute
PasoLeerConfig(body, leidos, index) ==
    IF index = 0
    THEN Fin(Rejected("liquidar", createError("EMP_NOT_FOUND", "Empleado no encontrado")))
    ELSE PasoCalculada(body, calcular(body.tipoNomina, leidos[index],
                                      novedadesDeBody(body), config))

\* Lines 181-215: the batch is in hand; upsert into it, then await guardarNomina
PasoLeerNomina(body, liquidacion) ==
    [pc |-> "guardarNomina",
     liquidacion |-> liquidacion,
     nomina |-> upsertLiquidacion(nominas[body.periodo], body.periodo, body.tipoNomina,
                                  body.cedula, liquidacion, now)]

\* the position and locals of a request after its next step
SiguienteDe(body, sol) ==
    CASE sol.pc = "inicio"        -> PasoInicio(body)
      [] sol.pc = "leerEmpleados" -> PasoLeerEmpleados
      [] sol.pc = "leerConfig"    ->
             PasoLeerConfig(body, sol.empleados, findIndexCedula(sol.empleados, body.cedula))
      [] sol.pc = "leerNomina"    -> PasoLeerNomina(body, sol.liquidacion)
      [] sol.pc = "guardarNomina" -> Fin(RespuestaLiquidar(body, sol.liquidacion))

\* the other request is between its first step and its answer
EnVuelo(r) == calcOut.req[r].pc \notin {"inicio", "fin"}

InitConcurrente ==
    /\ empleados = RosterDeDos
    /\ config = configDefault
    /\ nominas = [p \in Periodos |-> NoNomina]
    /\ now = 1
    /\ res = Idle
    /\ calcIn \in [Solicitudes -> UNION {CuerposDe(r) : r \in Solicitudes}]
    /\ \A r \in Solicitudes : calcIn[r] \in CuerposDe(r)
    /\ calcOut = [req |-> [r \in Solicitudes |-> [pc |-> "inicio"]], enParalelo |-> FALSE]

\* The variant that creates the file of the period as soon as the config is
\* in hand, before the computation and whatever guardar says
AvanzarCreandoArchivo(r) ==
    /\ calcOut.req[r].pc # "fin"
    /\ calcOut' = [req |-> [calcOut.req EXCEPT ![r] = SiguienteDe(calcIn[r], calcOut.req[r])],
                   enParalelo |-> calcOut.enParalelo \/ EnVuelo(3 - r)]
    /\ nominas' = IF calcOut.req[r].pc = "guardarNomina"
                  THEN [nominas EXCEPT ![calcIn[r].periodo] = calcOut.req[r].nomina]
                  ELSE IF calcOut.req[r].pc = "leerConfig" /\ IsNull(nominas[calcIn[r].periodo])
                  THEN [nominas EXCEPT ![calcIn[r].periodo] =
                           nominaNueva(calcIn[r].periodo, calcIn[r].tipoNomina, now)]
                  ELSE nominas
    /\ now' = IF calcOut.req[r].pc = "guardarNomina" THEN now + 1 ELSE now
    /\ UNCHANGED <<empleados, config, res, calcIn>>

\* Request r runs from where it stands to its next await.  The file of the
\* period is replaced when the request comes back from guardarNomina.
Avanzar(r) ==
    /\ calcOut.req[r].pc # "fin"
    /\ calcOut' = [req |-> [calcOut.req EXCEPT ![r] = SiguienteDe(calcIn[r], calcOut.req[r])],
                   enParalelo |-> calcOut.enParalelo \/ EnVuelo(3 - r)]
    /\ nominas' = IF calcOut.req[r].pc = "guardarNomina"
                  THEN [nominas EXCEPT ![calcIn[r].periodo] = calcOut.req[r].nomina]
                  ELSE nominas
    /\ now' = IF calcOut.req[r].pc = "guardarNomina" THEN now + 1 ELSE now
    /\ UNCHANGED <<empleados, config, res, calcIn>>

NextConcurrente == \E r \in Solicitudes : Avanzar(r)

SpecConcurrente == InitConcurrente /\ [][NextConcurrente]_vars

(***************************************************************************)
(* routes/config.js: PUT /api/config on the stored configuration           *)
(***************************************************************************)
\* The values a JSON body may give a numeric campo: a number, a string of
\* digits (Str), a string that is no numeral, and null.
NoNumeral == [t |-> "text", v |-> 0]

JsonNull == [t |-> "null", v |-> 0]

\* isNaN(Number(x)): only the string that is no numeral converts to NaN
isNaN(x) == x.t = "text"

\* Number(x) where it is not NaN: null converts to 0, a string of digits to
\* the number it spells
Number(x) == IF x.t = "null" THEN 0 ELSE x.v

camposNumericos == <<"smmlv", "auxTransporte", "saludPct", "pensionPct", "horaDivisor">>

\* Lines 87-89: the campo is given and its value is NaN or below 0
CampoInvalido(updates, campo) ==
    /\ Has(updates, campo)
    /\ (isNaN(updates[campo]) \/ Number(updates[campo]) < 0)

\* the first campo of the loop whose value throws, 0 when none does
PrimerInvalido(updates) ==
    IF \E i \in DOMAIN camposNumericos : CampoInvalido(updates, camposNumericos[i])
    THEN CHOOSE i \in DOMAIN camposNumericos :
             /\ CampoInvalido(updates, camposNumericos[i])
             /\ \A j \in 1..(i - 1) : ~CampoInvalido(updates, camposNumericos[j])
    ELSE 0

\* Lines 85-93 when nothing throws: config[campo] = Number(updates[campo])
ConCampos(cfg, updates) ==
    Spread(cfg, [k \in {camposNumericos[i] : i \in DOMAIN camposNumericos} \cap DOMAIN updates
                   |-> Number(updates[k])])

\* Lines 97-102: { ...config.factores, ...updates.factores }
ConFactores(cfg, updates) ==
    IF Has(updates, "factores")
    THEN Put(cfg, "factores", Spread(cfg.factores, updates.factores))
    ELSE cfg

\* Lines 105-109: the year when given, and updatedAt
ConYear(cfg, updates, t) ==
    Put(IF Falsy(updates, "year") THEN cfg ELSE Put(cfg, "year", updates.year),
        "updatedAt", t)

\* The request bodies of PUT /api/config
ConfigBodies ==
    { [smmlv |-> Num(1300000), auxTransporte |-> Num(140606), year |-> 2023],
      [smmlv |-> Num(0)],
      [smmlv |-> JsonNull],
      [auxTransporte |-> Num(150000), saludPct |-> Num(-4)],
      [smmlv |-> Num(1160000), horaDivisor |-> NoNumeral],
      [saludPct |-> Num(150)],
      [pensionPct |-> Str(5), horaDivisor |-> Num(0)],
      [factores |-> [horaExtraDiurna |-> 0, recargoNocturno |-> -135]],
      [factores |-> [horaExtraDiurna |-> 150]] }

\* Lines 80-119
PutConfig(updates) ==
    IF PrimerInvalido(updates) > 0
    THEN Fail("putConfig",
              createError("VALIDATION_ERROR",
                          camposNumericos[PrimerInvalido(updates)]
                              \o " debe ser un numero positivo"))
    ELSE /\ now <= MaxWrites
         /\ config' = ConYear(ConFactores(ConCampos(config, updates), updates), updates, now)
         /\ now' = now + 1
         /\ res' = [op |-> "putConfig", success |-> TRUE, code |-> "OK", status |-> 200,
                    data |-> config']
         /\ UNCHANGED <<empleados, nominas, calcIn, calcOut>>

InitConfig ==
    /\ empleados = <<>>
    /\ config = configDefault
    /\ nominas = [p \in Periodos |-> NoNomina]
    /\ now = 1
    /\ res = Idle
    /\ calcIn = Null
    /\ calcOut = [fn |-> "none"]

NextConfig == \E updates \in ConfigBodies : PutConfig(updates)

SpecConfig == InitConfig /\ [][NextConfig]_vars

(***************************************************************************)
(* Properties of the engine (under SpecEngine)                             *)
(***************************************************************************)
\* calcularNominaSemanal has run on an input that validarDatos accepts
ValidatedSemanal ==
    /\ calcOut.fn = "calcularNominaSemanal"
    /\ Len(validarDatos(calcIn.empleado, calcIn.novedades, calcIn.config)) = 0

\* The reference scenario of FORMULAS.md and API.md
ReferenceInput ==
    /\ calcIn.empleado = EngineEmpleado(1000000, FALSE)
    /\ calcIn.novedades = NovedadesReferencia
    /\ calcIn.config = configDefault

\* C1: for every input that passes validarDatos, calcularNominaSemanal returns
\* a settlement, and whatever it throws is a VALIDATION_ERROR.
C1_ValidatedInputReturns ==
    calcOut.fn = "calcularNominaSemanal" =>
        /\ ValidatedSemanal => calcOut.out.kind = "return"
        /\ calcOut.out.kind = "throw" =>
               /\ Has(calcOut.out.error, "code")
               /\ calcOut.out.error.code = "VALIDATION_ERROR"

\* C1: a validated input on which the call threw an error that carries no code
C1_ValidatedInputThrows ==
    /\ ValidatedSemanal
    /\ calcOut.out.kind = "throw"
    /\ ~Has(calcOut.out.error, "code")
    /\ calcOut.out.error.name = "ReferenceError"

\* C2: on the reference scenario calcularNominaSemanal returns salarioDevengado
\* 233,333.33, auxDevengado 27,340.13, deduccionSalud 9,333.33, deduccionPension
\* 9,333.33, valorNominaSemanal 242,006.80, totalNomina 448,466.67 and
\* totalConsignado 242,006.80.
C2_ReferenceScenario ==
    (calcOut.fn = "calcularNominaSemanal" /\ ReferenceInput) =>
        /\ calcOut.out.kind = "return"
        /\ calcOut.out.value.salarioDevengado = 23333333
        /\ calcOut.out.value.auxDevengado = 2734013
        /\ calcOut.out.value.deduccionSalud = 933333
        /\ calcOut.out.value.deduccionPension = 933333
        /\ calcOut.out.value.valorNominaSemanal = 24200680
        /\ calcOut.out.value.totalNomina = 44846667
        /\ calcOut.out.value.totalConsignado = 24200680

\* C2: the reference scenario, answered with "salarioBase is not defined"
C2_ReferenceScenarioThrows ==
    /\ calcOut.fn = "calcularNominaSemanal"
    /\ ReferenceInput
    /\ calcOut.out.kind = "throw"
    /\ calcOut.out.error.message = "salarioBase is not defined"

(***************************************************************************)
(* Properties of the period batches (under Spec)                           *)
(***************************************************************************)
Guardada(p) == ~IsNull(nominas[p])

Aprobada(p) == Guardada(p) /\ nominas[p].estado = "aprobada"

\* how many entries of a list carry the cedula c
Cuenta(s, c) == Cardinality({i \in 1..Len(s) : s[i].cedula = c})

Activos == SelectSeq(empleados, LAMBDA e : e.activo)

\* the error entries of the last response, none when it carries no errores
ErroresRespuesta == IF Has(res.data, "errores") THEN res.data.errores ELSE <<>>

\* the body names a period and a roster employee of positive salary whose
\* novelties validarDatos accepts, and asks for the settlement to be saved
LiquidarValida(body) ==
    /\ ~IsNull(body.cedula)
    /\ body.periodo \in Periodos
    /\ body.guardar
    /\ \E i \in 1..Len(empleados) :
          /\ StrictEq(empleados[i].cedula, body.cedula)
          /\ \A j \in 1..(i - 1) : ~StrictEq(empleados[j].cedula, body.cedula)
          /\ empleados[i].salarioBase > 0
          /\ Len(validarDatos(empleados[i], novedadesDeBody(body), config)) = 0

\* the request was answered NOMINA_ALREADY_CLOSED and the batch of p keeps its
\* settlements and totals
Cerrada(p) ==
    /\ res'.code = "NOMINA_ALREADY_CLOSED"
    /\ nominas'[p].liquidaciones = nominas[p].liquidaciones
    /\ nominas'[p].totales = nominas[p].totales

\* C3: once the batch of a period is approved, every POST /liquidar-all for
\* that period, and every POST /liquidar with guardar=true for it that names a
\* roster employee with valid novelties, is answered NOMINA_ALREADY_CLOSED and
\* leaves the stored liquidaciones and totales as they were.
C3_NoUpsertAfterApproval ==
    [][ /\ \A body \in LiquidarAllBodies :
             (body.periodo \in Periodos /\ Aprobada(body.periodo) /\ LiquidarAll(body))
                 => Cerrada(body.periodo)
        /\ \A body \in LiquidarBodies :
             (LiquidarValida(body) /\ Aprobada(body.periodo) /\ Liquidar(body))
                 => Cerrada(body.periodo) ]_vars

\* C4: a stored batch whose estado is 'aprobada' never has estado 'borrador'
\* again: the status only moves borrador -> aprobada.
C4_AprobadaIsTerminal ==
    [][ \A p \in Periodos : Aprobada(p) => (~IsNull(nominas'[p]) /\ nominas'[p].estado = "aprobada") ]_vars

\* C5: PUT /:periodo/aprobar on a batch that is already 'aprobada' fails with
\* NOMINA_ALREADY_CLOSED and writes nothing: aprobadoAt and the rest of the
\* stores are unchanged.
C5_ReapprovalRejected ==
    [][ \A p \in Periodos :
          (Aprobada(p) /\ Aprobar(p)) =>
              /\ res'.success = FALSE
              /\ res'.code = "NOMINA_ALREADY_CLOSED"
              /\ nominas' = nominas
              /\ empleados' = empleados
              /\ now' = now ]_vars

\* C5: an approval was refused on a batch that is approved
C5_ReapprovalSeen ==
    /\ res.op = "aprobar"
    /\ res.code = "NOMINA_ALREADY_CLOSED"
    /\ \E p \in Periodos : Aprobada(p) /\ nominas[p].aprobadoAt < now - 1

\* C6: in every stored batch totales.totalNomina is the sum of totalNomina
\* over its liquidaciones and totales.totalConsignado the sum of their
\* totalConsignado.
C6_TotalesAreSums ==
    \A p \in Periodos :
        Guardada(p) =>
            /\ nominas[p].totales.totalNomina = Sum(nominas[p].liquidaciones, "totalNomina")
            /\ nominas[p].totales.totalConsignado =
                   Sum(nominas[p].liquidaciones, "totalConsignado")

\* C6: a batch was stored, approved, and another one stored after it
C6_BatchesStored ==
    /\ \E p \in Periodos : Aprobada(p)
    /\ \E p \in Periodos : Guardada(p) /\ nominas[p].estado = "borrador"
    /\ res.op = "liquidarAll" /\ res.success

\* the settlements the period held before the request
LiquidacionesAntes(p) == IF Guardada(p) THEN nominas[p].liquidaciones ELSE <<>>

\* the request was served and the batch of the period now holds a settlement
\* for the cedula: in the position it had when there was one (the list as
\* long as before), appended otherwise; the totals are those of the list
Upserted(body) ==
    /\ res'.code = "OK"
    /\ ~IsNull(nominas'[body.periodo])
    /\ Cuenta(nominas'[body.periodo].liquidaciones, body.cedula) >= 1
    /\ Len(nominas'[body.periodo].liquidaciones) =
           IF Cuenta(LiquidacionesAntes(body.periodo), body.cedula) > 0
           THEN Len(LiquidacionesAntes(body.periodo))
           ELSE Len(LiquidacionesAntes(body.periodo)) + 1
    /\ \A i \in 1..Len(LiquidacionesAntes(body.periodo)) :
           nominas'[body.periodo].liquidaciones[i].cedula =
               LiquidacionesAntes(body.periodo)[i].cedula
    /\ nominas'[body.periodo].totales.totalNomina =
           Sum(nominas'[body.periodo].liquidaciones, "totalNomina")
    /\ nominas'[body.periodo].totales.totalConsignado =
           Sum(nominas'[body.periodo].liquidaciones, "totalConsignado")

\* C7: POST /liquidar with guardar=true is an idempotent upsert per employee:
\* the first call for a cedula appends its settlement, and the call performed
\* again with the same cedula, period and novelties leaves the list as long
\* as after the first, the replaced settlement in its position and the totals
\* those of the list.
C7_UpsertIdempotent ==
    [][ \A body \in LiquidarBodies :
          (LiquidarValida(body) /\ Liquidar(body)) => Upserted(body) ]_vars

\* C7: a valid POST /liquidar was answered with the server's internal error
C7_UpsertNeverRuns ==
    /\ res.op = "liquidar"
    /\ res.code = "INTERNAL_ERROR"
    /\ res.status = 500
    /\ \A p \in Periodos : ~Guardada(p)

novedadesPara(body, e) ==
    Spread(body.novedadesDefault, Override(body.novedadesPorEmpleado, e.cedula))

Malformados == {i \in 1..Len(Activos) : Activos[i].salarioBase < 0}

\* exactly one active employee has a negative salarioBase; every other one
\* has a positive salary and novelties that validarDatos accepts
UnMalformado(body) ==
    /\ body.periodo \in Periodos
    /\ Cardinality(Malformados) = 1
    /\ \A i \in 1..Len(Activos) :
          i \notin Malformados =>
              /\ Activos[i].salarioBase > 0
              /\ Len(validarDatos(Activos[i], novedadesPara(body, Activos[i]), config)) = 0

\* the request succeeded and stored N-1 settlements and one error entry, the
\* malformed employee's
TodosMenosUno(body) ==
    /\ res'.success
    /\ ~IsNull(nominas'[body.periodo])
    /\ Len(nominas'[body.periodo].liquidaciones) = Len(Activos) - 1
    /\ Has(nominas'[body.periodo], "errores")
    /\ Len(nominas'[body.periodo].errores) = 1
    /\ \A i \in Malformados : nominas'[body.periodo].errores[1].cedula = Activos[i].cedula

\* C9: a bulk settle over N active employees of which exactly one has a
\* negative salarioBase and the others are valid succeeds and stores a batch
\* with N-1 liquidaciones and exactly one entry in errores, the malformed
\* employee's.
C9_OneMalformedOneError ==
    [][ \A body \in LiquidarAllBodies :
          (UnMalformado(body) /\ LiquidarAll(body)) => TodosMenosUno(body) ]_vars

\* C9: a bulk settle over a valid employee and one of negative salary stored
\* no settlement and two error entries, neither of them a validation error
C9_NoneSettled ==
    /\ res.op = "liquidarAll" /\ res.success
    /\ Len(Activos) = 2
    /\ Activos[1].salarioBase > 0
    /\ Activos[2].salarioBase < 0
    /\ res.data.empleadosLiquidados = 0
    /\ res.data.empleadosConError = 2
    /\ \A i \in 1..2 : ErroresRespuesta[i].error = "salarioBase is not defined"

\* C10: after a bulk settle with at least one active employee the batch is
\* saved, every active employee is in exactly one of liquidaciones and
\* errores, and no inactive employee is in either: per cedula, the entries of
\* the two lists are as many as the active roster entries.
C10_EveryActiveOnce ==
    (res.op = "liquidarAll" /\ res.success) =>
        /\ Guardada(res.data.periodo)
        /\ nominas[res.data.periodo].procesadoAt = now - 1
        /\ Len(nominas[res.data.periodo].liquidaciones) = res.data.empleadosLiquidados
        /\ Len(ErroresRespuesta) = res.data.empleadosConError
        /\ res.data.empleadosLiquidados + res.data.empleadosConError = Len(Activos)
        /\ \A i \in 1..Len(empleados) :
              Cuenta(nominas[res.data.periodo].liquidaciones, empleados[i].cedula)
                + Cuenta(ErroresRespuesta, empleados[i].cedula)
              = Cuenta(Activos, empleados[i].cedula)

\* C10: a bulk settle in which the first employee's computation failed, the
\* second was still processed, and an inactive employee was left out
C10_FailureDidNotStop ==
    /\ res.op = "liquidarAll" /\ res.success
    /\ Len(Activos) >= 2
    /\ Len(ErroresRespuesta) >= 2
    /\ ErroresRespuesta[1].cedula = Activos[1].cedula
    /\ \E i \in 1..Len(empleados) : ~empleados[i].activo
    /\ Guardada(res.data.periodo)

(***************************************************************************)
(* Properties of the merged novelties (under SpecNovedades)                *)
(***************************************************************************)
\* the override the request carries for the employee of calcIn, {} when it
\* carries none (or null)
OverrideDado ==
    IF calcIn.empleado.cedula.v \in DOMAIN calcIn.novedadesPorEmpleado
       /\ "null" \notin DOMAIN calcIn.novedadesPorEmpleado[calcIn.empleado.cedula.v]
    THEN calcIn.novedadesPorEmpleado[calcIn.empleado.cedula.v]
    ELSE <<>>

\* C11: the novelties passed to the engine are novedadesDefault overridden
\* field by field: a field of the override has the override's value, a field
\* absent from it keeps the default's value, no other field appears, and an
\* employee without an override gets exactly the defaults.
C11_OverrideWinsPerField ==
    calcOut.fn = "novedades" =>
        /\ DOMAIN calcOut.out = DOMAIN calcIn.novedadesDefault \cup DOMAIN OverrideDado
        /\ \A f \in DOMAIN OverrideDado : calcOut.out[f] = OverrideDado[f]
        /\ \A f \in DOMAIN calcIn.novedadesDefault \ DOMAIN OverrideDado :
               calcOut.out[f] = calcIn.novedadesDefault[f]
        /\ (calcIn.empleado.cedula.v \notin DOMAIN calcIn.novedadesPorEmpleado
               => calcOut.out = calcIn.novedadesDefault)

\* C11: an override that replaces one default (diasLaborados 6 by 0), leaves
\* another (horasExtraDiurna 2) and shares a third field whose value differs
C11_OverrideApplied ==
    /\ calcOut.fn = "novedades"
    /\ calcIn.novedadesDefault = [diasLaborados |-> 6, horasExtraDiurna |-> 2,
                                  prestamo |-> 100000]
    /\ OverrideDado = [diasLaborados |-> 0, prestamo |-> 200000]
    /\ calcOut.out = [diasLaborados |-> 0, horasExtraDiurna |-> 2, prestamo |-> 200000]

(***************************************************************************)
(* Properties of the validation (under SpecEngine)                         *)
(***************************************************************************)
\* the campos listed in the details of the error thrown, {} for anything else
CamposListados ==
    IF calcOut.out.kind = "throw" /\ Has(calcOut.out.error, "details")
    THEN {calcOut.out.error.details[i] : i \in DOMAIN calcOut.out.error.details}
    ELSE {}

\* the rules of validarDatos that the input of calcIn violates, each named by
\* the campo its entry carries
ReglasVioladas ==
    (IF IsNull(calcIn.empleado) \/ Falsy(calcIn.empleado, "salarioBase")
     THEN {"empleado"} ELSE {})
    \cup (IF IsNull(calcIn.novedades) THEN {"novedades"} ELSE {})
    \cup (IF ~IsNull(calcIn.novedades)
             /\ (~Has(calcIn.novedades, "diasLaborados")
                 \/ calcIn.novedades.diasLaborados < 0
                 \/ calcIn.novedades.diasLaborados > 30)
          THEN {"diasLaborados"} ELSE {})
    \cup {k \in {"horasExtraDiurna", "horasExtraNocturna", "prestamo", "bonificacion"} :
            ~IsNull(calcIn.novedades) /\ Negative(calcIn.novedades, k)}
    \cup (IF IsNull(calcIn.config) \/ Falsy(calcIn.config, "smmlv")
          THEN {"config"} ELSE {})

\* C12: validation collects every violation: the details of the error thrown
\* by calcularNominaSemanal hold one entry for each violated rule, the config
\* rule included when the novelties are missing too.
C12_EveryViolationListed ==
    calcOut.fn = "calcularNominaSemanal" => ReglasVioladas \subseteq CamposListados

\* C12: novelties and config both missing, and the error lists the novelties only
C12_ConfigViolationDropped ==
    /\ calcOut.fn = "calcularNominaSemanal"
    /\ IsNull(calcIn.novedades)
    /\ IsNull(calcIn.config)
    /\ ~(IsNull(calcIn.empleado) \/ Falsy(calcIn.empleado, "salarioBase"))
    /\ calcOut.out.kind = "throw"
    /\ Has(calcOut.out.error, "details")
    /\ calcOut.out.error.details = <<"novedades">>

\* the nine quantities of the novelties that must not be negative
CantidadesNoNegativas ==
    {"horasExtraDiurna", "horasExtraNocturna", "horasRecargoNocturno",
     "horasExtraDomDiurna", "horasExtraDomNocturna", "dominicalSinComp",
     "dominicalConComp", "prestamo", "bonificacion"}

\* some provided quantity of calcIn.novedades is negative
CantidadNegativa ==
    /\ ~IsNull(calcIn.novedades)
    /\ \E k \in CantidadesNoNegativas : Negative(calcIn.novedades, k)

\* C13: calcularNominaSemanal fails with a VALIDATION_ERROR whenever one of
\* the seven surcharge counts, prestamo or bonificacion is provided negative.
C13_NegativeQuantityIsValidationError ==
    (calcOut.fn = "calcularNominaSemanal" /\ CantidadNegativa) =>
        /\ calcOut.out.kind = "throw"
        /\ Has(calcOut.out.error, "code")
        /\ calcOut.out.error.code = "VALIDATION_ERROR"

\* C13: a negative horasRecargoNocturno passes validarDatos, and what the call
\* throws is not a validation error
C13_NegativeRecargoNotValidated ==
    /\ calcOut.fn = "calcularNominaSemanal"
    /\ ~IsNull(calcIn.novedades)
    /\ Negative(calcIn.novedades, "horasRecargoNocturno")
    /\ Len(validarDatos(calcIn.empleado, calcIn.novedades, calcIn.config)) = 0
    /\ calcOut.out.kind = "throw"
    /\ ~Has(calcOut.out.error, "code")

(***************************************************************************)
(* Properties of the monthly computation (under SpecEngine)                *)
(***************************************************************************)
\* calcIn supplies diasLaborados, within 0..30
DiasSuministrados ==
    /\ ~IsNull(calcIn.novedades)
    /\ Has(calcIn.novedades, "diasLaborados")
    /\ calcIn.novedades.diasLaborados \in 0..30

\* calcIn passes validarDatos once diasLaborados is given the value dias
ValidoConDias(dias) ==
    /\ ~IsNull(calcIn.novedades)
    /\ Len(validarDatos(calcIn.empleado, Put(calcIn.novedades, "diasLaborados", dias),
                        calcIn.config)) = 0

\* C14: for a valid input calcularNominaMensual returns the weekly result of
\* the same inputs tagged MENSUAL whenever diasLaborados is supplied in 0..30
\* (0 included), and it settles 30 days only when diasLaborados is not supplied.
C14_MensualIsWeeklyTagged ==
    calcOut.fn = "calcularNominaMensual" =>
        /\ (DiasSuministrados /\ ValidoConDias(calcIn.novedades.diasLaborados)) =>
               /\ calcOut.out.kind = "return"
               /\ calcOut.out.value.diasLaborados = calcIn.novedades.diasLaborados
               /\ calcOut.out = Etiquetada(calcularNominaSemanal(
                                    calcIn.empleado, calcIn.novedades, calcIn.config))
        /\ (~IsNull(calcIn.novedades) /\ ~Has(calcIn.novedades, "diasLaborados")
            /\ ValidoConDias(30)) =>
               /\ calcOut.out.kind = "return"
               /\ calcOut.out.value.diasLaborados = 30
               /\ calcOut.out.value.tipoNomina = "MENSUAL"

\* C14: a valid monthly input that supplies diasLaborados = 0, and no result
C14_MensualZeroDaysThrows ==
    /\ calcOut.fn = "calcularNominaMensual"
    /\ DiasSuministrados
    /\ calcIn.novedades.diasLaborados = 0
    /\ ValidoConDias(0)
    /\ calcOut.out.kind = "throw"

\* C15: for every valid input with diasLaborados = 0, weekly or monthly, the
\* settlement has salarioDevengado, auxDevengado, deduccionSalud and
\* deduccionPension equal to 0.
C15_ZeroDaysZeroSalary ==
    (calcOut.fn \in {"calcularNominaSemanal", "calcularNominaMensual"}
     /\ DiasSuministrados /\ calcIn.novedades.diasLaborados = 0 /\ ValidoConDias(0)) =>
        /\ calcOut.out.kind = "return"
        /\ calcOut.out.value.salarioDevengado = 0
        /\ calcOut.out.value.auxDevengado = 0
        /\ calcOut.out.value.deduccionSalud = 0
        /\ calcOut.out.value.deduccionPension = 0

\* C15: a valid weekly input with diasLaborados = 0, and no settlement
C15_ZeroDaysNoSettlement ==
    /\ calcOut.fn = "calcularNominaSemanal"
    /\ DiasSuministrados
    /\ calcIn.novedades.diasLaborados = 0
    /\ ValidoConDias(0)
    /\ calcOut.out.kind = "throw"
    /\ calcOut.out.error.name = "ReferenceError"

(***************************************************************************)
(* Properties of the settlement arithmetic (under SpecEngine)              *)
(***************************************************************************)
\* C16: for every valid input the reported fields of the settlement satisfy
\* totalNomina = valorNominaSemanal + valorBoniSemanal and
\* totalConsignado = valorNominaSemanal, to the centavo.
C16_ReportedTotalsAdd ==
    ValidatedSemanal =>
        /\ calcOut.out.kind = "return"
        /\ calcOut.out.value.totalNomina
               = calcOut.out.value.valorNominaSemanal + calcOut.out.value.valorBoniSemanal
        /\ calcOut.out.value.totalConsignado = calcOut.out.value.valorNominaSemanal

\* C16: a valid input with a bonus and a salary whose daily value is not a
\* whole number of centavos, and no reported field at all
C16_NoReportedFields ==
    /\ ValidatedSemanal
    /\ Has(calcIn.novedades, "bonificacion")
    /\ calcIn.novedades.bonificacion > 0
    /\ ~calcIn.empleado.esSalarioMinimo
    /\ calcIn.empleado.salarioBase = 1000000
    /\ calcOut.out.kind = "throw"

\* calcIn.empleado with the flag esSalarioMinimo flipped
Gemelo == [calcIn.empleado EXCEPT !.esSalarioMinimo = ~calcIn.empleado.esSalarioMinimo]

\* C17: for a valid input the transport subsidy is the days worked times the
\* daily subsidy when the stored salarioBase is at most 2 x smmlv and 0
\* otherwise, the employee that differs only in esSalarioMinimo gets the same
\* subsidy, and salarioBase 3,000,000 with esSalarioMinimo under smmlv
\* 1,000,000 gets auxDevengado = 0.
C17_SubsidyByStoredSalary ==
    ValidatedSemanal =>
        /\ calcOut.out.kind = "return"
        /\ calcOut.out.value.auxDevengado
               = IF calcIn.empleado.salarioBase <= 2 * calcIn.config.smmlv
                 THEN redondear(RatTimes(calcOut.out.value.diasLaborados,
                                         RatDivInt(RatInt(calcIn.config.auxTransporte), 30)))
                 ELSE 0
        /\ calcularNominaSemanal(Gemelo, calcIn.novedades, calcIn.config).kind = "return"
        /\ calcularNominaSemanal(Gemelo, calcIn.novedades, calcIn.config).value.auxDevengado
               = calcOut.out.value.auxDevengado

\* C17: the employee with salarioBase 3,000,000 flagged esSalarioMinimo under
\* smmlv 1,000,000, seven days worked, and no settlement to read auxDevengado from
C17_FlaggedHighSalaryThrows ==
    /\ ValidatedSemanal
    /\ calcIn.empleado.salarioBase = 3000000
    /\ calcIn.empleado.esSalarioMinimo
    /\ calcIn.config.smmlv = 1000000
    /\ calcIn.novedades.diasLaborados = 7
    /\ calcOut.out.kind = "throw"
    /\ calcOut.out.error.name = "ReferenceError"

\* the hourly surcharge kinds and the Sunday kinds of the per-unit values
KindsPorHora ==
    {"horaExtraDiurna", "horaExtraNocturna", "recargoNocturno",
     "horaExtraDomDiurna", "horaExtraDomNocturna"}

KindsPorDia == {"dominicalSinComp", "dominicalConComp"}

\* calcIn.empleado with its salary set to smmlv and no flag
ConSalarioMinimo ==
    [calcIn.empleado EXCEPT !.salarioBase = calcIn.config.smmlv, !.esSalarioMinimo = FALSE]

\* C18: the per-unit values of a salary S are valorDia = S/30, horaOrdinaria =
\* S/horaDivisor, the five hourly kinds horaOrdinaria x factor and the two
\* Sunday kinds valorDia x factor; and a valid employee flagged esSalarioMinimo
\* is settled with the rates, salarioDevengado and health and pension
\* deductions of the employee whose salarioBase is smmlv.
C18_RatesFromEffectiveSalary ==
    /\ (calcOut.fn = "calcularValoresBase" /\ calcOut.out.kind = "return") =>
           /\ calcOut.out.value.valorDia = Rat(calcIn.empleado.salarioBase, 30)
           /\ calcOut.out.value.horaOrdinaria
                  = Rat(calcIn.empleado.salarioBase,
                        IF Falsy(calcIn.config, "horaDivisor") THEN 240
                        ELSE calcIn.config.horaDivisor)
           /\ \A k \in KindsPorHora :
                  calcOut.out.value[k] = RatMul(calcOut.out.value.horaOrdinaria,
                                                Rat(calcIn.config.factores[k], 100))
           /\ \A k \in KindsPorDia :
                  calcOut.out.value[k] = RatMul(calcOut.out.value.valorDia,
                                                Rat(calcIn.config.factores[k], 100))
    /\ (ValidatedSemanal /\ calcIn.empleado.esSalarioMinimo) =>
           /\ calcOut.out.kind = "return"
           /\ calcularNominaSemanal(ConSalarioMinimo, calcIn.novedades,
                                    calcIn.config).kind = "return"
           /\ \A f \in {"valoresBase", "salarioDevengado", "totalExtras",
                        "deduccionSalud", "deduccionPension"} :
                  calcOut.out.value[f]
                      = calcularNominaSemanal(ConSalarioMinimo, calcIn.novedades,
                                              calcIn.config).value[f]

\* C18: a valid employee flagged esSalarioMinimo whose stored salary is not
\* smmlv, with overtime and a Sunday in the period, and no settlement
C18_FlaggedEmployeeNotSettled ==
    /\ ValidatedSemanal
    /\ calcIn.empleado.esSalarioMinimo
    /\ calcIn.empleado.salarioBase # calcIn.config.smmlv
    /\ Has(calcIn.novedades, "dominicalSinComp")
    /\ calcIn.novedades.dominicalSinComp > 0
    /\ calcOut.out.kind = "throw"

\* calcIn.novedades without its bonus and its loan
SinBoniNiPrestamo ==
    Omit(calcIn.novedades, {"bonificacion", "prestamo"})

\* C19: the loan and the bonus never touch the salary portion: the settlement
\* of a valid input has the valorNominaSemanal, totalConsignado,
\* salarioDevengado, auxDevengado, deduccionSalud and deduccionPension of the
\* same input without bonus and loan, valorBoniSemanal is bonificacion minus
\* prestamo, and totalNomina is the salary portion plus that difference.
C19_LoanAndBonusOffSalary ==
    ValidatedSemanal =>
        /\ calcOut.out.kind = "return"
        /\ calcularNominaSemanal(calcIn.empleado, SinBoniNiPrestamo,
                                 calcIn.config).kind = "return"
        /\ \A f \in {"valorNominaSemanal", "totalConsignado", "salarioDevengado",
                     "auxDevengado", "deduccionSalud", "deduccionPension"} :
               calcOut.out.value[f]
                   = calcularNominaSemanal(calcIn.empleado, SinBoniNiPrestamo,
                                           calcIn.config).value[f]
        /\ calcOut.out.value.valorBoniSemanal
               = Default(calcIn.novedades, "bonificacion", 0)
                 - Default(calcIn.novedades, "prestamo", 0)
        /\ calcOut.out.value.totalNomina
               = calcOut.out.value.valorNominaSemanal
                 + Default(calcIn.novedades, "bonificacion", 0)
                 - Default(calcIn.novedades, "prestamo", 0)

\* C19: a valid input with a loan, and no settlement to compare
C19_LoanInputThrows ==
    /\ ValidatedSemanal
    /\ Has(calcIn.novedades, "prestamo")
    /\ calcIn.novedades.prestamo > 0
    /\ calcIn.empleado.salarioBase = 3000000
    /\ calcOut.out.kind = "throw"

\* C20: negative net pay is a warning, not an error: a valid input whose
\* items add up to a totalNomina below 0 is still settled, the settlement is
\* flagged as negative and valorBoniSemanal is bonificacion minus prestamo,
\* not clamped at 0.
C20_NegativeNetPayReturned ==
    (ValidatedSemanal
     /\ liquidacionDe(calcIn.empleado, calcIn.novedades, calcIn.config,
                      calcIn.empleado.salarioBase).value.totalNomina < 0) =>
        /\ calcOut.out.kind = "return"
        /\ calcOut.out.warn
        /\ calcOut.out.value.totalNomina < 0
        /\ calcOut.out.value.valorBoniSemanal
               = Default(calcIn.novedades, "bonificacion", 0)
                 - Default(calcIn.novedades, "prestamo", 0)

\* C20: a loan of 500,000 against no bonus and a week of the minimum salary:
\* the items add up to less than 0, and the call throws
C20_NegativeNetPayThrows ==
    /\ ValidatedSemanal
    /\ calcIn.empleado.salarioBase = 1000000
    /\ calcIn.novedades = [diasLaborados |-> 7, prestamo |-> 50000000]
    /\ liquidacionDe(calcIn.empleado, calcIn.novedades, calcIn.config,
                     calcIn.empleado.salarioBase).value.totalNomina < 0
    /\ calcOut.out.kind = "throw"
    /\ calcOut.out.error.name = "ReferenceError"

(***************************************************************************)
(* Properties of the rounding (under SpecRedondear)                        *)
(***************************************************************************)
\* valor in centavos, halves rounded away from zero
HalfAwayFromZero(valor) ==
    (IF valor.n < 0 THEN -1 ELSE 1)
        * ((200 * Abs(valor.n) + valor.d) \div (2 * valor.d))

\* C21: a reported currency value is its full-precision value rounded to 2
\* decimals with halves rounded away from zero, below zero as well as above
\* (-0.005 is reported as -0.01).
C21_HalvesAwayFromZero ==
    calcOut.fn = "redondear" => calcOut.out = HalfAwayFromZero(calcIn.valor)

\* C21: exactly -0.005 is reported as 0
C21_NegativeHalfRoundsUp ==
    /\ calcOut.fn = "redondear"
    /\ calcIn.valor = Rat(-5, 1000)
    /\ calcOut.out = 0

(***************************************************************************)
(* Properties of two requests in flight (under SpecConcurrente)            *)
(***************************************************************************)
\* both requests have answered
AmbasRespondidas == \A r \in Solicitudes : calcOut.req[r].pc = "fin"

\* both requests ask for the settlement to be saved and carry novelties that
\* validarDatos accepts
AmbasValidas ==
    \A r \in Solicitudes :
        /\ calcIn[r].guardar
        /\ calcIn[r].novedades.diasLaborados \in 0..30

\* the cedulas of the settlements stored for the period of the scenario
CedulasGuardadas ==
    IF Guardada("2022-S19")
    THEN {nominas["2022-S19"].liquidaciones[i].cedula :
             i \in DOMAIN nominas["2022-S19"].liquidaciones}
    ELSE {}

\* C22: when two valid POST /liquidar requests (guardar = true) for two
\* different employees and one period run one after the other, the stored
\* batch holds both settlements.
C22_SerializedKeepsBoth ==
    (AmbasRespondidas /\ AmbasValidas /\ ~calcOut.enParalelo) =>
        CedulasGuardadas = {calcIn[r].cedula : r \in Solicitudes}

\* C22: the two requests ran one after the other, both were answered with an
\* error, and the period has no batch
C22_SerializedStoresNothing ==
    /\ AmbasRespondidas
    /\ AmbasValidas
    /\ ~calcOut.enParalelo
    /\ \A r \in Solicitudes : ~calcOut.req[r].res.success
    /\ ~Guardada("2022-S19")

(***************************************************************************)
(* Properties of the roster (under Spec)                                   *)
(***************************************************************************)
\* C23: employee ids are unique in the roster: after any sequence of POST,
\* PUT and DELETE /empleados requests no two roster entries carry the same
\* cedula.
C23_RosterCedulasUnique ==
    \A i, j \in 1..Len(empleados) :
        i # j => empleados[i].cedula # empleados[j].cedula

\* C23: a POST whose cedula was the number 1 has just been answered 201 and
\* the roster holds two entries with cedula '1'
C23_NumericCedulaAddedTwice ==
    /\ res.op = "postEmpleado"
    /\ res.success
    /\ res.data.cedula = Str(1)
    /\ Cuenta(empleados, Str(1)) = 2

\* the entries of the roster other than the one at index are the same after
\* the step, at the same places
OtrosIguales(index) ==
    /\ Len(empleados') = Len(empleados)
    /\ \A i \in 1..Len(empleados) : i # index => empleados'[i] = empleados[i]

\* C24: PUT /empleados/:cedula never changes the cedula or the createdAt of
\* the entry, whatever the body holds; DELETE without hardDelete keeps the
\* entry and sets only activo = false and updatedAt; an entry leaves the roster
\* only in a DELETE with hardDelete; and each of the three leaves every other
\* entry as it was.
C24_EmployeeLifecycle ==
    [][ /\ \A r \in PutRequests :
              (res'.op = "putEmpleado" /\ res'.success
               /\ PutEmpleado(r.cedula, r.updates)) =>
                  /\ OtrosIguales(findIndexCedula(empleados, Str(r.cedula)))
                  /\ \A i \in 1..Len(empleados) :
                         /\ empleados'[i].cedula = empleados[i].cedula
                         /\ empleados'[i].createdAt = empleados[i].createdAt
        /\ \A r \in DeleteRequests :
              (res'.op = "deleteEmpleado" /\ res'.success
               /\ DeleteEmpleado(r.cedula, r.hardDelete)) =>
                  IF r.hardDelete
                  THEN empleados' = RemoveAt(empleados,
                                             findIndexCedula(empleados, Str(r.cedula)))
                  ELSE /\ OtrosIguales(findIndexCedula(empleados, Str(r.cedula)))
                       /\ empleados'[findIndexCedula(empleados, Str(r.cedula))]
                              = [empleados[findIndexCedula(empleados, Str(r.cedula))]
                                    EXCEPT !.activo = FALSE, !.updatedAt = now]
        /\ (\/ Len(empleados') < Len(empleados)
            \/ \E i \in 1..Len(empleados) : empleados'[i].cedula # empleados[i].cedula) =>
               \E r \in DeleteRequests : r.hardDelete /\ DeleteEmpleado(r.cedula, r.hardDelete)
      ]_vars

\* C24: a PUT whose body carried cedula '9' and createdAt 99 has been applied
\* to employee '1' (salarioBase is now 0) and left both as they were, in a
\* roster where another entry was deactivated by a soft DELETE
C24_PutAppliedAfterSoftDelete ==
    /\ res.op = "putEmpleado"
    /\ res.success
    /\ res.data.salarioBase = 0
    /\ res.data.cedula = Str(1)
    /\ res.data.createdAt = 0
    /\ \E i \in 1..Len(empleados) :
           /\ empleados[i].cedula = Str(2)
           /\ ~empleados[i].activo
           /\ empleados[i].updatedAt > 0

(***************************************************************************)
(* Properties of the stored configuration (under SpecConfig)               *)
(***************************************************************************)
\* the seven kinds of the factor table
KindsDeFactores == KindsPorHora \cup KindsPorDia

\* C25: the stored configuration stays well-formed under any sequence of PUT
\* /config requests from the default one: smmlv > 0, horaDivisor > 0,
\* auxTransporte >= 0, saludPct and pensionPct within 0..100, and factores
\* holds the seven kinds, each with a multiplier > 0.
C25_ConfigWellFormed ==
    /\ config.smmlv > 0
    /\ config.horaDivisor > 0
    /\ config.auxTransporte >= 0
    /\ config.saludPct \in 0..100
    /\ config.pensionPct \in 0..100
    /\ KindsDeFactores \subseteq DOMAIN config.factores
    /\ \A k \in KindsDeFactores : config.factores[k] > 0

\* C25: a PUT /config has just been answered 200 and the stored factor table
\* holds a multiplier of 0 and a negative one
C25_NonPositiveFactorStored ==
    /\ res.op = "putConfig"
    /\ res.success
    /\ config.factores.horaExtraDiurna = 0
    /\ config.factores.recargoNocturno < 0

\* the body gives a numeric campo a value that is neither a number nor the
\* numeral of one (null, a string that is no numeral), or a negative one
CampoNoNumericoONegativo(updates) ==
    \E i \in DOMAIN camposNumericos :
        /\ camposNumericos[i] \in DOMAIN updates
        /\ (updates[camposNumericos[i]].t \in {"null", "text"}
            \/ updates[camposNumericos[i]].v < 0)

\* C29: a PUT /config in which a numeric campo is not a number or is negative
\* fails with VALIDATION_ERROR and leaves the stored configuration as it was,
\* also when a campo checked before it was valid.
C29_InvalidPutConfigWritesNothing ==
    [][ \A updates \in ConfigBodies :
          (CampoNoNumericoONegativo(updates) /\ PutConfig(updates)) =>
              /\ res'.code = "VALIDATION_ERROR"
              /\ ~res'.success
              /\ config' = config
      ]_vars

\* C29: a PUT /config whose smmlv was null has been answered 200, and the
\* stored smmlv is no longer the one of the default configuration
C29_NullStoredAsZero ==
    /\ res.op = "putConfig"
    /\ res.success
    /\ config.smmlv = 0
    /\ config.updatedAt = 1
    /\ config.auxTransporte = configDefault.auxTransporte

(***************************************************************************)
(* Properties of POST /liquidar (under Spec)                               *)
(***************************************************************************)
\* C26: a POST /liquidar that fails (cedula or periodo missing, employee not
\* found, or the engine throwing) writes nothing: every stored batch is as it
\* was and no batch appears for a period that had none.
C26_FailedLiquidarWritesNothing ==
    [][ (res'.op = "liquidar" /\ ~res'.success
         /\ \E body \in LiquidarBodies : Liquidar(body)) =>
            /\ nominas' = nominas
            /\ empleados' = empleados
            /\ config' = config
      ]_vars

\* C26: a POST /liquidar was rejected by the engine's validation while a
\* batch was stored for one period and none for the other
C26_RejectedBesideStoredBatch ==
    /\ res.op = "liquidar"
    /\ ~res.success
    /\ res.code = "VALIDATION_ERROR"
    /\ res.message = "Error en los datos de entrada"
    /\ Guardada("2022-S19")
    /\ ~Guardada("2022-S20")

\* C27: once a period has a batch, a later settlement operation builds on it:
\* the batch stays, its creadoAt does not change, and every employee with a
\* settlement in it still has one after the step.
C27_BatchIsBuiltUpon ==
    [][ \A p \in Periodos :
          ~IsNull(nominas[p]) =>
              /\ ~IsNull(nominas'[p])
              /\ nominas'[p].creadoAt = nominas[p].creadoAt
              /\ \A i \in 1..Len(nominas[p].liquidaciones) :
                     Cuenta(nominas'[p].liquidaciones,
                            nominas[p].liquidaciones[i].cedula) >= 1
      ]_vars

\* no roster write has happened: the three entries the server started with
\* are all there, as created
RosterIntacto ==
    /\ Len(empleados) = 3
    /\ \A i \in 1..Len(empleados) :
           empleados[i].createdAt = 0 /\ empleados[i].updatedAt = 0

\* C27: the only writes so far went to the batch of 2022-S19, the last one a
\* liquidar-all, and the batch carries the creadoAt of the second write
C27_BatchReplacedByLiquidarAll ==
    /\ res.op = "liquidarAll"
    /\ res.success
    /\ RosterIntacto
    /\ ~IsNull(nominas["2022-S19"])
    /\ IsNull(nominas["2022-S20"])
    /\ now = 3
    /\ nominas["2022-S19"].creadoAt = 2

(***************************************************************************)
(* Properties of the preview (under SpecConcurrente)                       *)
(***************************************************************************)
\* the body of request r with guardar set
ConGuardar(r) == [calcIn[r] EXCEPT !.guardar = TRUE]

\* C28: POST /liquidar with guardar = false is a pure preview: no step of it,
\* whether it ends in success or in an error, changes a stored batch, the
\* roster or the configuration, and when it succeeds it answers with the
\* settlement the same request with guardar = true would carry to its answer.
C28_PreviewIsPure ==
    [][ \A r \in Solicitudes :
          (~calcIn[r].guardar /\ Avanzar(r)) =>
              /\ nominas' = nominas
              /\ empleados' = empleados
              /\ config' = config
              /\ (calcOut'.req[r].pc = "fin" /\ calcOut'.req[r].res.success) =>
                     calcOut'.req[r].res.data
                         = SiguienteDe(ConGuardar(r), calcOut.req[r]).liquidacion
      ]_vars

\* C28: a preview with valid novelties has been answered, next to a request
\* that asked for its settlement to be saved, and the period has no batch
C28_PreviewAnswered ==
    /\ ~calcIn[1].guardar
    /\ calcIn[1].novedades = NovedadesReferencia
    /\ calcIn[2].guardar
    /\ AmbasRespondidas
    /\ calcOut.req[1].res.op = "liquidar"
    /\ \A p \in Periodos : IsNull(nominas[p])

(***************************************************************************)
(* Properties of who is settled (under Spec)                               *)
(***************************************************************************)
\* the settlements of a stored batch, none for a period without one
LiquidacionesDeNomina(nomina) ==
    IF IsNull(nomina) THEN {}
    ELSE {nomina.liquidaciones[i] : i \in DOMAIN nomina.liquidaciones}

====
